---- MODULE Spec2Model ----
(***************************************************************************)
(* Verification development for kevanbtc/clickbadass.                      *)
(*                                                                         *)
(* The programs of the repository are modelled, each under its own         *)
(* specification over the shared clock:                                    *)
(*   SpecDemo    src/src/demo/verification-server.js (mock dual-rail demo) *)
(*   SpecIssuer  src/src/vc-issuer.ts (class VCIssuer, called directly)    *)
(*   SpecApi     src/src/api/silobridge-api.ts (verify and issuance)       *)
(*   SpecReq     the requirement step of each rail, as a pure function     *)
(*   SpecConsent     silobridge-api.ts (consent and assertion routes)      *)
(*   SpecConcurrent  silobridge-api.ts (consent requests in flight)        *)
(*   SpecAuth        silobridge-api.ts (routes behind authenticate)        *)
(*   SpecReissue     vc-issuer.ts (a credential issued twice)              *)
(*   SpecProvider    vc-issuer.ts (verification awaiting the RPC provider) *)
(*   SpecSetup       src/setup.sh (one run of the script after another)    *)
(*   SpecUnyID       src/unnamed/part_006 (class UnyID, called directly)   *)
(*   SpecActors      silobridge-api.ts (consent routes, by who posts)      *)
(*   SpecWidget      unykorn-suite/components/UnyIDConnect.tsx             *)
(*   SpecProofCheck  silobridge-api.ts (component SiloProofCheck)          *)
(*                                                                         *)
(* Conventions.  JavaScript strings whose characters matter (decimal       *)
(* amounts, which the code hands to parseFloat) are sequences of           *)
(* one-character strings; other strings are TLA+ strings.  A JavaScript    *)
(* number is kept in hundredths (50000 is 5000000).  Times are             *)
(* Date.now() milliseconds, scaled (see Time).  EIP-712 signing is         *)
(* idealised: a signature is the term (signer, domain, value) and          *)
(* recovery under any other domain or value yields an address nobody       *)
(* holds.                                                                  *)
(***************************************************************************)
EXTENDS Integers, Sequences, FiniteSets, TLC

VARIABLES
    now,                \* Date.now(), milliseconds
    jumps,              \* how many times the clock has advanced
    mockNFTRegistry,    \* demo: token id -> token record
    demoResp,           \* demo: the last HTTP response, with its request
    config,             \* VCIssuer: this.config and this.signer
    signed,             \* the credential document as its issuer signed it
    doc,                \* the document a caller presents (signed, or altered)
    revoked,            \* revocation registry: status ids flagged revoked
    verification,       \* the last verifyCredential call, with its outcome
    pofTokenStore,      \* API: token id -> proof-of-funds record
    issuedURI,          \* API: the vcURI the last issuance response carried
    apiResp,            \* API: the last HTTP response, with its request
    requirementCase,    \* the last application of a requirement step
    consentStore,       \* API: userId -> list of consent grants
    consentResp,        \* API: the last answer of a consent or assertion route
    inFlight,           \* API: consent requests received and not yet handled
    handled,            \* the consent requests handled so far, in order
    reissue,            \* the last pair of issuances from the same input
    call,               \* a verifyCredential call that awaits the RPC provider
    pc,                 \* setup.sh: the function the run is in
    started,            \* setup.sh: arguments, environment and files at the start
    DRY_RUN,            \* setup.sh: global flag
    CI_ALLOW,           \* setup.sh: global flag
    OCB,                \* setup.sh: the modules whose OCB_<module> flag is true
    status,             \* setup.sh: exit code of the run
    output,             \* setup.sh: lines written to stdout and stderr
    files,              \* the home directory: path -> content
    runs,               \* how many times setup.sh has been started
    profiles,           \* UnyID: this.profiles, key -> reference to a profile
    objects,            \* UnyID: the profile objects, reference -> profile
    unyResp,            \* UnyID: the last call, with what it returned
    granters,           \* who has posted a consent grant, by subject
    widget,             \* UnyIDConnect: the state of one mounted widget
    proofCheck          \* SiloProofCheck: the state of one mounted component

demoVars == <<mockNFTRegistry, demoResp>>
issuerVars == <<config, signed, doc, revoked, verification>>
apiVars == <<pofTokenStore, issuedURI, apiResp>>
reqVars == <<requirementCase>>
consentVars == <<consentStore, consentResp, inFlight, handled>>
reissueVars == <<reissue>>
\* The variables of the sections that follow the consent routes.
providerVars == <<call>>
setupVars == <<pc, started, DRY_RUN, CI_ALLOW, OCB, status, output, files, runs>>
unyidVars == <<profiles, objects, unyResp>>
actorVars == <<granters>>
widgetVars == <<widget>>
proofVars == <<proofCheck>>
laterVars == <<unyidVars, actorVars, widgetVars, proofVars>>
otherVars == <<reissueVars, providerVars, setupVars, laterVars>>
vars == <<now, jumps, mockNFTRegistry, demoResp, config, signed, doc, revoked,
          verification, pofTokenStore, issuedURI, apiResp, requirementCase,
          consentStore, consentResp, inFlight, handled, reissue, call, pc, started,
          DRY_RUN, CI_ALLOW, OCB, status, output, files, runs, profiles, objects,
          unyResp, granters, widget, proofCheck>>

----------------------------------------------------------------------------
(* Bounds *)

\* setup.sh is started at most this many times.
MaxRuns == 2

\* The clock advances at most this many times.
MaxJumps == 2

\* Consent requests that may be in flight at once, and handled in all.
MaxInFlight == 2
MaxHandled == 3

----------------------------------------------------------------------------
(* JavaScript values *)

\* `undefined' for a string-valued field.
Undefined == "undefined"

\* `undefined' for a field that holds a number or a numeric string.
NoValue == [t |-> "undefined"]

Num(hundredths) == [t |-> "num", v |-> hundredths]
Str(chars) == [t |-> "str", v |-> chars]

\* Truthiness of a string: undefined and "" are falsy.
TruthyStr(s) == s # Undefined /\ s # ""

\* Truthiness of a number or numeric string: undefined, 0 and "" are falsy.
Truthy(x) ==
    /\ x.t # "undefined"
    /\ x.t = "num" => x.v # 0
    /\ x.t = "str" => x.v # <<>>

Digits == {"0", "1", "2", "3", "4", "5", "6", "7", "8", "9"}

DigitVal(c) ==
    CASE c = "0" -> 0 [] c = "1" -> 1 [] c = "2" -> 2 [] c = "3" -> 3
      [] c = "4" -> 4 [] c = "5" -> 5 [] c = "6" -> 6 [] c = "7" -> 7
      [] c = "8" -> 8 [] c = "9" -> 9

\* The longest prefix of s made of digits.
RECURSIVE DigitRun(_)
DigitRun(s) ==
    IF s = <<>> \/ Head(s) \notin Digits THEN <<>>
    ELSE <<Head(s)>> \o DigitRun(Tail(s))

RECURSIVE DecimalValue(_, _)
DecimalValue(ds, acc) ==
    IF ds = <<>> THEN acc ELSE DecimalValue(Tail(ds), acc * 10 + DigitVal(Head(ds)))

NaN == [nan |-> TRUE, v |-> 0]
Finite(v) == [nan |-> FALSE, v |-> v]

\* parseFloat on a string: the longest numeric prefix (digits, then an
\* optional point and digits), NaN when it holds no digit.  The value is kept
\* in hundredths; the strings of the model carry at most two decimals.
ParseFloatChars(s) ==
    LET ip   == DigitRun(s)
        rest == SubSeq(s, Len(ip) + 1, Len(s))
        fp   == IF rest # <<>> /\ Head(rest) = "." THEN DigitRun(Tail(rest)) ELSE <<>>
        fp2  == SubSeq(fp \o <<"0", "0">>, 1, 2)
    IN  IF ip = <<>> /\ fp = <<>> THEN NaN
        ELSE Finite(DecimalValue(ip, 0) * 100 + DecimalValue(fp2, 0))

\* parseFloat(x): a number is converted to its string and parsed back.
ParseFloat(x) ==
    CASE x.t = "num" -> Finite(x.v)
      [] x.t = "str" -> ParseFloatChars(x.v)
      [] OTHER -> NaN

\* a < b and a >= b on numbers; every comparison with NaN is false.
Less(a, b) == ~a.nan /\ ~b.nan /\ a.v < b.v
GreaterEq(a, b) == ~a.nan /\ ~b.nan /\ a.v >= b.v

----------------------------------------------------------------------------
(* Time *)

\* TLC's integers have 32 bits, so the clock is scaled by 1/3600: the model's
\* "second" is an hour of real time and its "millisecond" a thousandth of
\* that.  Every duration of the code keeps its ratio to every other, and
\* seconds still convert to milliseconds by * 1000.
HourSec == (60 * 60) \div 3600
DaySec == 24 * HourSec
DayMs == DaySec * 1000
WeekMs == 7 * DayMs
ThirtyDaysMs == 30 * DayMs
ThirtyDaysSec == 30 * DaySec

\* The clock when the programs start (an arbitrary origin, one year in).
StartMs == 365 * DayMs

\* Steps by which the model's clock advances.
ClockJumps == {WeekMs, ThirtyDaysMs}

\* new Date(ms).toISOString() and new Date(iso) for a date string.
ToISOString(ms) == [iso |-> ms]

\* new Date(s).getTime(): NaN for a string that is no date.
DateParse(s) == IF "iso" \in DOMAIN s THEN Finite(s.iso) ELSE NaN

----------------------------------------------------------------------------
(* The demo server: src/src/demo/verification-server.js *)

Chars50000p00 == <<"5", "0", "0", "0", "0", ".", "0", "0">>
Chars50000p0 == <<"5", "0", "0", "0", "0", ".", "0">>
Chars40000p00 == <<"4", "0", "0", "0", "0", ".", "0", "0">>
Chars10000 == <<"1", "0", "0", "0", "0">>
Chars60000 == <<"6", "0", "0", "0", "0">>

KnownVcURI == "did:ethr:0x742d/vc/pof-42"
KnownTokenId == "42"

NotFound == [t |-> "undefined"]
NoMetadata == [t |-> "undefined"]

\* mockNFTRegistry as the module builds it when the server starts.
InitialNFTRegistry ==
    KnownTokenId :> [tokenId          |-> KnownTokenId,
                     amount           |-> Str(Chars50000p00),
                     asset            |-> "USDC",
                     holderAddress    |-> "0x742d",
                     expiry           |-> (StartMs \div 1000) + ThirtyDaysSec,
                     kycCompliant     |-> TRUE,
                     sanctionsCleared |-> TRUE,
                     custodian        |-> "Coinbase Custody",
                     valid            |-> TRUE]

\* mockVCRegistry: built when the server starts, never written afterwards.
mockVCRegistry ==
    KnownVcURI :> [vcURI      |-> KnownVcURI,
                   valid      |-> TRUE,
                   claims     |-> <<"ProofOfFunds", "KYCCompliant", "SanctionsCleared">>,
                   issuedBy   |-> "UnyKorn Proof of Funds Service",
                   expiresAt  |-> ToISOString(StartMs + ThirtyDaysMs),
                   verifiedAt |-> StartMs,
                   metadata   |-> [amount    |-> Str(Chars50000p00),
                                   currency  |-> "USDC",
                                   tokenId   |-> KnownTokenId,
                                   holderDID |-> "did:ethr:0x742d"]]

\* registry[key] of a JavaScript object: undefined for a key it lacks.
Lookup(registry, key) == IF key \in DOMAIN registry THEN registry[key] ELSE NotFound

\* metadata?.amount, metadata?.currency and metadata?.tokenId
MetaAmount(m) == IF m = NoMetadata THEN NoValue ELSE m.amount
MetaCurrency(m) == IF m = NoMetadata THEN Undefined ELSE m.currency
MetaTokenId(m) == IF m = NoMetadata THEN Undefined ELSE m.tokenId

\* nftData.expiry > Date.now() / 1000, on exact rationals
TokenUnexpired(nftData, t) == nftData.expiry * 1000 > t

\* The two requirement checks of /api/verify, applied to a result: each
\* overwrites valid and reason when it fails.
DemoRequirements(result, asset, amount, req) ==
    LET r1 == IF TruthyStr(req.requiredAsset) /\ asset # req.requiredAsset
              THEN [result EXCEPT !.valid = FALSE, !.reason = "Asset mismatch"]
              ELSE result
    IN  IF Truthy(req.minAmount) /\ Less(ParseFloat(amount), ParseFloat(req.minAmount))
        THEN [r1 EXCEPT !.valid = FALSE, !.reason = "Insufficient amount"]
        ELSE r1

DemoDefaultResult(t) ==
    [valid |-> FALSE, reason |-> "No verification method provided", claims |-> <<>>,
     issuedBy |-> Undefined, expiresAt |-> Undefined, verifiedAt |-> t,
     metadata |-> NoMetadata]

\* POST /api/verify, VC branch
DemoVerifyVC(req, t) ==
    LET vcData == Lookup(mockVCRegistry, req.vcURI)
    IN  IF vcData # NotFound
        THEN DemoRequirements(
                 [valid      |-> vcData.valid,
                  reason     |-> IF vcData.valid THEN "VC verification successful"
                                 ELSE "Invalid VC signature",
                  claims     |-> vcData.claims,
                  issuedBy   |-> vcData.issuedBy,
                  expiresAt  |-> vcData.expiresAt,
                  verifiedAt |-> vcData.verifiedAt,
                  metadata   |-> vcData.metadata],
                 vcData.metadata.currency, vcData.metadata.amount, req)
        ELSE [DemoDefaultResult(t) EXCEPT !.reason = "VC not found in registry"]

\* POST /api/verify, NFT branch
DemoVerifyNFT(req, registry, t) ==
    LET nftData == Lookup(registry, req.tokenId)
    IN  IF nftData # NotFound
        THEN DemoRequirements(
                 [valid      |-> nftData.valid /\ TokenUnexpired(nftData, t),
                  reason     |-> IF nftData.valid
                                 THEN (IF TokenUnexpired(nftData, t)
                                       THEN "NFT verification successful"
                                       ELSE "Token expired")
                                 ELSE "Invalid token",
                  claims     |-> <<"ProofOfFunds">>,
                  issuedBy   |-> "UPoF V2 System",
                  expiresAt  |-> ToISOString(nftData.expiry * 1000),
                  verifiedAt |-> t,
                  metadata   |-> [tokenId          |-> nftData.tokenId,
                                  amount           |-> nftData.amount,
                                  currency         |-> nftData.asset,
                                  holderAddress    |-> nftData.holderAddress,
                                  custodian        |-> nftData.custodian,
                                  kycCompliant     |-> nftData.kycCompliant,
                                  sanctionsCleared |-> nftData.sanctionsCleared]],
                 nftData.asset, nftData.amount, req)
        ELSE [DemoDefaultResult(t) EXCEPT !.reason = "NFT token not found"]

\* POST /api/verify: the response (always 200 on these inputs)
DemoVerify(req, registry, t) ==
    [status |-> 200,
     rails  |-> IF TruthyStr(req.vcURI) THEN {"VC"}
                ELSE IF TruthyStr(req.tokenId) THEN {"NFT"} ELSE {},
     body   |-> IF TruthyStr(req.vcURI) THEN DemoVerifyVC(req, t)
                ELSE IF TruthyStr(req.tokenId) THEN DemoVerifyNFT(req, registry, t)
                ELSE DemoDefaultResult(t)]

\* The credential rail of /api/verify/dual
DualVCRail(req) ==
    LET vcData == Lookup(mockVCRegistry, req.vcURI)
    IN  IF vcData # NotFound
        THEN [valid |-> vcData.valid, method |-> "VC", claims |-> vcData.claims,
              metadata |-> vcData.metadata, reason |-> Undefined]
        ELSE [valid |-> FALSE, method |-> "VC", claims |-> <<>>,
              metadata |-> NoMetadata, reason |-> "VC not found"]

\* The token rail of /api/verify/dual
DualNFTRail(req, registry, t) ==
    LET nftData == Lookup(registry, req.tokenId)
    IN  IF nftData # NotFound
        THEN [valid |-> nftData.valid /\ TokenUnexpired(nftData, t), method |-> "NFT",
              claims |-> <<"ProofOfFunds">>,
              metadata |-> [amount |-> nftData.amount, currency |-> nftData.asset,
                            tokenId |-> nftData.tokenId],
              reason |-> Undefined]
        ELSE [valid |-> FALSE, method |-> "NFT", claims |-> <<>>,
              metadata |-> NoMetadata, reason |-> "NFT not found"]

\* Mutant: the amounts are compared as numbers, not as strings.
CrossValidate_Numeric(vcResult, nftResult) ==
    [bothValid     |-> vcResult.valid /\ nftResult.valid,
     amountMatch   |-> ParseFloat(MetaAmount(vcResult.metadata)).v
                           = ParseFloat(MetaAmount(nftResult.metadata)).v,
     currencyMatch |-> MetaCurrency(vcResult.metadata) = MetaCurrency(nftResult.metadata),
     tokenIdMatch  |-> MetaTokenId(vcResult.metadata) = MetaTokenId(nftResult.metadata)]

\* crossValidation of /api/verify/dual
CrossValidate(vcResult, nftResult) ==
    [bothValid     |-> vcResult.valid /\ nftResult.valid,
     amountMatch   |-> MetaAmount(vcResult.metadata) = MetaAmount(nftResult.metadata),
     currencyMatch |-> MetaCurrency(vcResult.metadata) = MetaCurrency(nftResult.metadata),
     tokenIdMatch  |-> MetaTokenId(vcResult.metadata) = MetaTokenId(nftResult.metadata)]

\* Mutant: only a request lacking both identifiers is rejected.
DualIncomplete_Both(req) == ~TruthyStr(req.vcURI) /\ ~TruthyStr(req.tokenId)

\* The guard of /api/verify/dual: true when the request is rejected with 400.
DualIncomplete(req) == ~TruthyStr(req.vcURI) \/ ~TruthyStr(req.tokenId)

\* valid of the dual result
DualValid(cv) == cv.bothValid /\ cv.amountMatch /\ cv.currencyMatch

\* POST /api/verify/dual: the response, and the rails it ran
DemoVerifyDual(req, registry, t) ==
    IF DualIncomplete(req)
    THEN [status |-> 400, rails |-> {},
          body |-> [error |-> "Both vcURI and tokenId required for dual verification"]]
    ELSE LET vcResult  == DualVCRail(req)
             nftResult == DualNFTRail(req, registry, t)
             cv        == CrossValidate(vcResult, nftResult)
         IN  [status |-> 200, rails |-> {"VC", "NFT"},
              body |-> [valid |-> DualValid(cv),
                        verificationMethods |-> <<"VC", "NFT">>,
                        crossValidation |-> cv,
                        results |-> [vc |-> vcResult, nft |-> nftResult],
                        verifiedAt |-> t,
                        reason |-> IF cv.bothValid
                                   THEN (IF cv.amountMatch /\ cv.currencyMatch
                                         THEN "Dual verification successful with cross-validation"
                                         ELSE "Methods valid but claims do not match")
                                   ELSE "One or both verification methods failed"]]

\* Request bodies the demo endpoints are driven with.
DemoVcURIs == {Undefined, "", KnownVcURI, "did:ethr:0xdead/vc/none"}
DemoTokenIds == {Undefined, KnownTokenId, "99"}
DemoAssets == {Undefined, "USDC", "ETH"}
DemoMinAmounts == {NoValue, Str(Chars10000), Str(Chars60000), Num(0)}
DemoRequests ==
    [vcURI : DemoVcURIs, tokenId : DemoTokenIds,
     requiredAsset : DemoAssets, minAmount : DemoMinAmounts]

\* Values the external ledger may give the token record.
LedgerAmounts == {Str(Chars50000p00), Str(Chars50000p0), Str(Chars40000p00)}
LedgerAssets == {"USDC", "ETH"}

NoResp == [endpoint |-> "none"]

ClockInit == now = StartMs /\ jumps = 0

DemoInit ==
    /\ mockNFTRegistry = InitialNFTRegistry
    /\ demoResp = NoResp

\* A client posts to /api/verify.
DemoPostVerify ==
    \E req \in DemoRequests :
        /\ demoResp = NoResp
        /\ demoResp' = [endpoint |-> "verify", req |-> req,
                        resp |-> DemoVerify(req, mockNFTRegistry, now)]
        /\ UNCHANGED <<now, jumps, otherVars, consentVars, reqVars, mockNFTRegistry, issuerVars, apiVars>>

\* A client posts to /api/verify/dual.
DemoPostVerifyDual ==
    \E req \in DemoRequests :
        /\ demoResp = NoResp
        /\ demoResp' = [endpoint |-> "dual", req |-> req,
                        resp |-> DemoVerifyDual(req, mockNFTRegistry, now)]
        /\ UNCHANGED <<now, jumps, otherVars, consentVars, reqVars, mockNFTRegistry, issuerVars, apiVars>>

\* The ledger behind mockNFTRegistry changes the token record (the registry
\* stands for an external ledger; the server itself never writes it).
LedgerUpdate ==
    \E amount \in LedgerAmounts, asset \in LedgerAssets, valid \in BOOLEAN :
        /\ mockNFTRegistry' = [mockNFTRegistry EXCEPT
               ![KnownTokenId].amount = amount,
               ![KnownTokenId].asset = asset,
               ![KnownTokenId].valid = valid]
        /\ mockNFTRegistry' # mockNFTRegistry
        /\ demoResp = NoResp
        /\ UNCHANGED <<now, jumps, otherVars, consentVars, reqVars, demoResp, issuerVars, apiVars>>

\* The client has read the response (res.json); the model handles one
\* request at a time.
DemoDeliver ==
    /\ demoResp # NoResp
    /\ demoResp' = NoResp
    /\ UNCHANGED <<now, jumps, otherVars, consentVars, reqVars, mockNFTRegistry, issuerVars, apiVars>>

\* Time passes.
Tick ==
    \E d \in ClockJumps :
        /\ jumps < MaxJumps
        /\ now' = now + d
        /\ jumps' = jumps + 1

DemoTick == demoResp = NoResp /\ Tick /\ UNCHANGED <<demoVars, issuerVars, apiVars, reqVars, consentVars, otherVars>>

----------------------------------------------------------------------------
(* Claims about the demo server *)

DualAnswered == demoResp.endpoint = "dual" /\ demoResp.resp.status = 200

\* The same request with the token record's amount replaced.
DualWithAmount(req, amount) ==
    DemoVerifyDual(req, [mockNFTRegistry EXCEPT ![req.tokenId].amount = amount], now)

\* C1: a dual-rail result is valid exactly when the credential rail is
\* valid, the token rail is valid, and the two rails report the same amount
\* and the same currency; and for a request whose rails reported the same
\* amount, giving the token record any other amount (credential untouched)
\* makes amountMatch false and the result invalid.
C1_DualValidIffRailsAgree ==
    /\ DualAnswered =>
           LET b == demoResp.resp.body
           IN  b.valid <=>
                   /\ b.results.vc.valid
                   /\ b.results.nft.valid
                   /\ MetaAmount(b.results.vc.metadata) = MetaAmount(b.results.nft.metadata)
                   /\ MetaCurrency(b.results.vc.metadata)
                          = MetaCurrency(b.results.nft.metadata)
    /\ \A req \in DemoRequests :
           (/\ ~DualIncomplete(req)
            /\ req.tokenId \in DOMAIN mockNFTRegistry
            /\ DemoVerifyDual(req, mockNFTRegistry, now).body.crossValidation.amountMatch)
           => \A amount \in LedgerAmounts \ {mockNFTRegistry[req.tokenId].amount} :
                  LET after == DualWithAmount(req, amount).body
                  IN  ~after.crossValidation.amountMatch /\ ~after.valid

\* C1 witness: both rails valid and agreeing on the currency, the ledger has
\* changed the token's amount, and the dual result is invalid on amountMatch.
C1_Witness ==
    /\ DualAnswered
    /\ demoResp.resp.body.crossValidation.bothValid
    /\ demoResp.resp.body.crossValidation.currencyMatch
    /\ ~demoResp.resp.body.crossValidation.amountMatch
    /\ ~demoResp.resp.body.valid
    /\ mockNFTRegistry[KnownTokenId].amount # InitialNFTRegistry[KnownTokenId].amount

\* C2: whenever /api/verify/dual answers valid for (vcURI, tokenId,
\* requirements), /api/verify on the vcURI alone and on the tokenId alone,
\* with the same requirements, each answer valid.
C2_DualAppliesRequirements ==
    (DualAnswered /\ demoResp.resp.body.valid) =>
        /\ DemoVerify([demoResp.req EXCEPT !.tokenId = Undefined],
                      mockNFTRegistry, now).body.valid
        /\ DemoVerify([demoResp.req EXCEPT !.vcURI = Undefined],
                      mockNFTRegistry, now).body.valid

Missing(s) == s \in {Undefined, ""}

\* C3: a dual-rail request without vcURI or without tokenId is answered 400
\* with an error body only: no rail was run and no verification result (no
\* valid field, no single-rail result) is returned.
C3_IncompleteDualRejected ==
    (demoResp.endpoint = "dual"
     /\ (Missing(demoResp.req.vcURI) \/ Missing(demoResp.req.tokenId)))
    => /\ demoResp.resp.status = 400
       /\ demoResp.resp.rails = {}
       /\ DOMAIN demoResp.resp.body = {"error"}

\* C3 witness: a dual request naming a known credential but no token was
\* rejected.
C3_Witness ==
    /\ demoResp.endpoint = "dual"
    /\ demoResp.req.vcURI = KnownVcURI
    /\ demoResp.req.tokenId = Undefined
    /\ demoResp.resp.status = 400

----------------------------------------------------------------------------
(* The credential issuer: src/src/vc-issuer.ts *)

\* A JavaScript array, and a bare string where an array is expected.
List(items) == [array |-> TRUE, items |-> items]
Bare(string) == [array |-> FALSE, items |-> <<string>>]

\* The empty string where a date or a signature is expected.
EmptyString == [t |-> "empty"]

\* Signing keys and the addresses they control (ethers.Wallet).
IssuerKey == "key-issuer"
ForeignKey == "key-foreign"
AddressOf(key) == IF key = IssuerKey THEN "0xA1" ELSE "0xB2"

\* The address recovered from a signature made over other data: nobody's.
UnrelatedAddress == "0x00"

\* did:ethr:<address>, and the address such a DID names.
DidEthr(address) == [method |-> "ethr", address |-> address]
DidAddress(did) == did.address

\* VC_ISSUER_DID when the environment does not set it: 'did:ethr:0x123...'
DefaultIssuerDID == DidEthr("0x123...")

HolderDID == DidEthr("0x742d")
OtherDID == DidEthr("0xB2")

\* The configurations a VCIssuer is constructed with: the signing key comes
\* from the environment, the issuer DID from the environment or the default.
IssuerConfigs ==
    {[issuerDID |-> d, signingKey |-> IssuerKey,
      registryContract |-> "0xEAS", chainId |-> "1"] :
        d \in {DidEthr(AddressOf(IssuerKey)), DefaultIssuerDID}}

\* Another issuer on the same network and registry, with its own key.
ForeignConfig ==
    [issuerDID |-> DidEthr(AddressOf(ForeignKey)), signingKey |-> ForeignKey,
     registryContract |-> "0xEAS", chainId |-> "1"]

\* The EIP-712 domain of signVC and verifyVCSignature.
Domain(cfg) ==
    [name |-> "UnyKorn Verifiable Credentials", version |-> "1",
     chainId |-> cfg.chainId, verifyingContract |-> cfg.registryContract]

\* typeof vc.issuer === 'string' ? vc.issuer : vc.issuer.id
IssuerId(issuer) == IF "string" \in DOMAIN issuer THEN issuer.string ELSE issuer.id

\* Array.isArray(c) ? c : [c]
ContextArray(context) == context.items

\* vc.expirationDate || ''
OrEmpty(date) == IF date \in {NoValue, EmptyString} THEN EmptyString ELSE date

\* JSON.stringify(credentialSubject): a property whose value is undefined is
\* left out (proofOfFunds.auditTrail is the one the issuer may leave so).
JSONStringify(subject) ==
    IF "proofOfFunds" \in DOMAIN subject /\ subject.proofOfFunds.auditTrail = Undefined
    THEN [json |-> [subject EXCEPT !.proofOfFunds =
                       [k \in DOMAIN @ \ {"auditTrail"} |-> @[k]]]]
    ELSE [json |-> subject]

\* Mutant: the expiration date is left out of the signed value.
TypedValue_NoExpiration(vc) ==
    [context           |-> ContextArray(vc.context),
     type              |-> vc.type,
     issuer            |-> IssuerId(vc.issuer),
     issuanceDate      |-> vc.issuanceDate,
     expirationDate    |-> EmptyString,
     credentialSubject |-> JSONStringify(vc.credentialSubject)]

\* The value signVC signs and verifyVCSignature rebuilds.
TypedValue(vc) ==
    [context           |-> ContextArray(vc.context),
     type              |-> vc.type,
     issuer            |-> IssuerId(vc.issuer),
     issuanceDate      |-> vc.issuanceDate,
     expirationDate    |-> OrEmpty(vc.expirationDate),
     credentialSubject |-> JSONStringify(vc.credentialSubject)]

\* signer._signTypedData(domain, types, value)
SignTypedData(key, domain, value) ==
    [sig |-> "eip712", signer |-> AddressOf(key), domain |-> domain, value |-> value]

\* A proof value that is no signature at all.
GarbageSignature == [sig |-> "garbage"]

\* Mutant: the recovered signer does not depend on the domain.
VerifyTypedData_AnyDomain(domain, value, signature) ==
    IF signature.value = value THEN signature.signer ELSE UnrelatedAddress

\* ethers.utils.verifyTypedData(domain, types, value, signature)
VerifyTypedData(domain, value, signature) ==
    IF signature.domain = domain /\ signature.value = value
    THEN signature.signer
    ELSE UnrelatedAddress

\* signVC: the document with its proof attached
signVC(cfg, vc, t) ==
    [vc EXCEPT !.proof =
        [type               |-> "EthereumEip712Signature2021",
         created            |-> ToISOString(t),
         verificationMethod |-> [did |-> cfg.issuerDID, fragment |-> "key-1"],
         proofPurpose       |-> "assertionMethod",
         proofValue         |-> SignTypedData(cfg.signingKey, Domain(cfg), TypedValue(vc))]]

\* asset.includes(code), for the asset names of the model
Includes(asset, code) ==
    \/ asset = code
    \/ asset = "aUSDC" /\ code = "USDC"

\* extractCurrency
extractCurrency(asset) ==
    IF Includes(asset, "USDC") THEN "USDC"
    ELSE IF Includes(asset, "USDT") THEN "USDT"
    ELSE IF Includes(asset, "ETH") THEN "ETH"
    ELSE IF Includes(asset, "BTC") THEN "BTC"
    ELSE "USD"

ContextW3C == "https://www.w3.org/2018/credentials/v1"

\* issueProofOfFunds(holderDID, pofData) at time t
issueProofOfFunds(cfg, holderDID, pofData, t) ==
    signVC(cfg,
        [context |-> List(<<ContextW3C, "https://pof.unykorn.com/contexts/v1",
                            "https://schema.org">>),
         type |-> List(<<"VerifiableCredential", "ProofOfFundsCredential">>),
         issuer |-> [id |-> cfg.issuerDID, name |-> "UnyKorn Proof of Funds Service"],
         issuanceDate |-> ToISOString(t),
         expirationDate |-> ToISOString(pofData.expiry * 1000),
         credentialSubject |->
            [id |-> holderDID,
             hasAsset |-> [type |-> pofData.asset,
                           minimumAmount |-> pofData.amount,
                           currency |-> extractCurrency(pofData.asset)],
             proofOfFunds |-> [tokenId |-> pofData.tokenId,
                               verifiedAmount |-> pofData.amount,
                               custodian |-> IF TruthyStr(pofData.custodian)
                                             THEN pofData.custodian ELSE "self-custody",
                               auditTrail |-> pofData.auditHash],
             compliance |-> [kycApproved |-> pofData.kycCompliant,
                             sanctionsCleared |-> pofData.sanctionsCleared,
                             verifiedAt |-> ToISOString(t)]],
         credentialStatus |-> [id |-> [registry |-> cfg.registryContract,
                                       token |-> pofData.tokenId],
                               type |-> "EthereumAttestationServiceStatus"],
         proof |-> NoValue],
        t)

\* issueKYCCredential(holderDID, kycData) at time t: valid for one year
issueKYCCredential(cfg, holderDID, kycData, t) ==
    signVC(cfg,
        [context |-> List(<<ContextW3C, "https://kyc.unykorn.com/contexts/v1">>),
         type |-> List(<<"VerifiableCredential", "KYCCredential">>),
         issuer |-> [id |-> cfg.issuerDID, name |-> "UnyKorn KYC Verification Service"],
         issuanceDate |-> ToISOString(t),
         expirationDate |-> ToISOString(t + 365 * DayMs),
         credentialSubject |->
            [id |-> holderDID,
             kycStatus |-> [approved |-> kycData.approved,
                            level |-> kycData.level,
                            provider |-> kycData.provider,
                            verifiedAt |-> ToISOString(kycData.verifiedAt * 1000)]],
         credentialStatus |-> NoValue,
         proof |-> NoValue],
        t)

\* issueDeviceAttestation(holderDID, deviceData) at time t: valid for a week
issueDeviceAttestation(cfg, holderDID, deviceData, t) ==
    signVC(cfg,
        [context |-> List(<<ContextW3C, "https://device.unykorn.com/contexts/v1">>),
         type |-> List(<<"VerifiableCredential", "DeviceAttestationCredential">>),
         issuer |-> [id |-> cfg.issuerDID, name |-> "UnyKorn Device Attestation Service"],
         issuanceDate |-> ToISOString(t),
         expirationDate |-> ToISOString(t + WeekMs),
         credentialSubject |->
            [id |-> holderDID,
             device |-> [id |-> deviceData.deviceId,
                         platform |-> deviceData.platform,
                         securityLevel |-> deviceData.securityLevel,
                         attestations |-> deviceData.attestations,
                         verifiedAt |-> ToISOString(deviceData.verifiedAt * 1000)]],
         credentialStatus |-> NoValue,
         proof |-> NoValue],
        t)

\* Building the signed value throws when vc.issuer is undefined (vc.issuer.id).
ValueThrows(vc) == vc.issuer = NoValue

\* verifyVCSignature: false without a proof value, false when building the
\* value or recovering the signer throws, else whether the recovered address
\* is this issuer's own signing address.
verifyVCSignature(cfg, vc) ==
    IF vc.proof = NoValue \/ vc.proof.proofValue \in {NoValue, EmptyString} THEN FALSE
    ELSE IF ValueThrows(vc) \/ vc.proof.proofValue = GarbageSignature THEN FALSE
    ELSE VerifyTypedData(Domain(cfg), TypedValue(vc), vc.proof.proofValue)
             = AddressOf(cfg.signingKey)

\* vc.expirationDate && new Date(vc.expirationDate) < new Date()
Expired(vc, t) ==
    /\ vc.expirationDate \notin {NoValue, EmptyString}
    /\ Less(DateParse(vc.expirationDate), Finite(t))

\* checkRevocationStatus: false without a status pointer, and false with one
\* (no registry is consulted: "For now, return false (not revoked)").
checkRevocationStatus(vc) == IF vc.credentialStatus = NoValue THEN FALSE ELSE FALSE

\* Mutant: the expiry check runs before the signature check.
verifyCredential_ExpiryFirst(cfg, vc, t) ==
    IF Expired(vc, t)
    THEN [verified |-> FALSE, error |-> "Credential expired", evaluated |-> <<"expiry">>]
    ELSE IF ~verifyVCSignature(cfg, vc)
    THEN [verified |-> FALSE, error |-> "Invalid signature",
          evaluated |-> <<"expiry", "signature">>]
    ELSE IF checkRevocationStatus(vc)
    THEN [verified |-> FALSE, error |-> "Credential revoked",
          evaluated |-> <<"expiry", "signature", "revocation">>]
    ELSE [verified |-> TRUE, error |-> Undefined,
          evaluated |-> <<"expiry", "signature", "revocation">>]

\* verifyCredential(vc) at time t; `evaluated' lists the checks it ran.
verifyCredential(cfg, vc, t) ==
    IF ~verifyVCSignature(cfg, vc)
    THEN [verified |-> FALSE, error |-> "Invalid signature", evaluated |-> <<"signature">>]
    ELSE IF Expired(vc, t)
    THEN [verified |-> FALSE, error |-> "Credential expired",
          evaluated |-> <<"signature", "expiry">>]
    ELSE IF checkRevocationStatus(vc)
    THEN [verified |-> FALSE, error |-> "Credential revoked",
          evaluated |-> <<"signature", "expiry", "revocation">>]
    ELSE [verified |-> TRUE, error |-> Undefined,
          evaluated |-> <<"signature", "expiry", "revocation">>]

\* Source facts the issuer is called with.
StartSec == StartMs \div 1000

PofFunded ==
    [tokenId |-> "42", asset |-> "USDC", amount |-> Str(Chars50000p00),
     expiry |-> StartSec + ThirtyDaysSec, holderAddress |-> "0x742d",
     kycCompliant |-> TRUE, sanctionsCleared |-> TRUE,
     custodian |-> "Coinbase Custody", auditHash |-> "0x8f3b"]

PofLapsed ==
    [tokenId |-> "7", asset |-> "ETH", amount |-> Str(Chars40000p00),
     expiry |-> StartSec - DaySec, holderAddress |-> "0x742d",
     kycCompliant |-> TRUE, sanctionsCleared |-> FALSE,
     custodian |-> Undefined, auditHash |-> Undefined]

PofInputs == {PofFunded, PofLapsed}

KycInputs ==
    {[userId |-> "user-1", provider |-> "UnyKorn KYC", level |-> "standard",
      approved |-> TRUE, verifiedAt |-> StartSec]}

DeviceInputs ==
    {[deviceId |-> "device-1", platform |-> "ios", securityLevel |-> "hardware",
      attestations |-> <<"bootloader_locked">>, verifiedAt |-> StartSec]}

\* Status ids the revocation registry may flag.
StatusIds == {[registry |-> "0xEAS", token |-> p.tokenId] : p \in PofInputs}

NoDoc == [t |-> "undefined"]
NoVerification == [t |-> "undefined"]

IssuerInit ==
    /\ config \in IssuerConfigs
    /\ signed = NoDoc
    /\ doc = NoDoc
    /\ revoked = {}
    /\ verification = NoVerification

Idle == verification = NoVerification /\ apiResp = NoResp

\* A caller obtains a credential from this issuer.
Issue ==
    /\ Idle
    /\ \E vc \in {issueProofOfFunds(config, HolderDID, p, now) : p \in PofInputs}
              \cup {issueKYCCredential(config, HolderDID, k, now) : k \in KycInputs}
              \cup {issueDeviceAttestation(config, HolderDID, d, now) : d \in DeviceInputs} :
           /\ signed' = vc
           /\ doc' = vc
    /\ UNCHANGED <<now, jumps, otherVars, consentVars, reqVars, demoVars, apiVars, config, revoked, verification>>

NoReissue == [t |-> "undefined"]

ReissueInit == reissue = NoReissue

\* What issuing again at time t gives for the input data vc was issued from.
Reissues(cfg, vc, t) ==
    {issueProofOfFunds(cfg, HolderDID, p, t) :
        p \in {q \in PofInputs :
                  vc = issueProofOfFunds(cfg, HolderDID, q, vc.issuanceDate.iso)}}
    \cup {issueKYCCredential(cfg, HolderDID, k, t) :
        k \in {q \in KycInputs :
                  vc = issueKYCCredential(cfg, HolderDID, q, vc.issuanceDate.iso)}}
    \cup {issueDeviceAttestation(cfg, HolderDID, d, t) :
        d \in {q \in DeviceInputs :
                  vc = issueDeviceAttestation(cfg, HolderDID, q, vc.issuanceDate.iso)}}

\* The caller issues again from the input data of the credential it holds,
\* and has both documents verified.
Reissue ==
    /\ Idle
    /\ reissue = NoReissue
    /\ signed # NoDoc
    /\ \E again \in Reissues(config, signed, now) :
           /\ reissue' = [first |-> signed, second |-> again, at |-> now,
                          firstOut |-> verifyCredential(config, signed, now),
                          secondOut |-> verifyCredential(config, again, now)]
           /\ signed' = again
           /\ doc' = again
    /\ UNCHANGED <<now, jumps, providerVars, setupVars, laterVars, consentVars, reqVars, demoVars, apiVars, config,
                   revoked, verification>>

\* The caller has compared the two documents.
ReissueReturn ==
    /\ reissue # NoReissue
    /\ reissue' = NoReissue
    /\ UNCHANGED <<now, jumps, providerVars, setupVars, laterVars, consentVars, reqVars, demoVars, apiVars,
                   issuerVars>>

NoCall == [t |-> "undefined"]

ProviderInit == call = NoCall

\* verifyCredential is called with a document that has a proof value:
\* verifyVCSignature awaits provider.getNetwork() for the chainId of the
\* domain.  The source sets no timer on the await.
VerifyBegin ==
    /\ Idle
    /\ call = NoCall
    /\ doc # NoDoc
    /\ doc.proof # NoValue
    /\ doc.proof.proofValue \notin {NoValue, EmptyString}
    /\ call' = [vc |-> doc, at |-> now, awaiting |-> "getNetwork",
                provider |-> "silent", out |-> NoValue]
    /\ UNCHANGED <<now, jumps, reissueVars, setupVars, laterVars, consentVars, reqVars, demoVars, apiVars,
                   issuerVars>>

\* The provider answers with its network: the checks run to their outcome.
ProviderAnswers ==
    /\ call # NoCall
    /\ call.awaiting = "getNetwork"
    /\ call' = [call EXCEPT !.awaiting = "returned", !.provider = "answered",
                            !.out = verifyCredential(config, call.vc, now)]
    /\ UNCHANGED <<now, jumps, reissueVars, setupVars, laterVars, consentVars, reqVars, demoVars, apiVars,
                   issuerVars>>

\* The RPC library gives up waiting and rejects the promise: the rejection
\* is caught in verifyVCSignature, which answers false.
ProviderGivesUp ==
    /\ call # NoCall
    /\ call.awaiting = "getNetwork"
    /\ call' = [call EXCEPT !.awaiting = "returned", !.provider = "gave up",
                            !.out = [verified |-> FALSE, error |-> "Invalid signature",
                                     evaluated |-> <<"signature">>]]
    /\ UNCHANGED <<now, jumps, reissueVars, setupVars, laterVars, consentVars, reqVars, demoVars, apiVars,
                   issuerVars>>

\* The caller has read the outcome of the call.
CallReturn ==
    /\ call # NoCall
    /\ call.awaiting = "returned"
    /\ call' = NoCall
    /\ UNCHANGED <<now, jumps, reissueVars, setupVars, laterVars, consentVars, reqVars, demoVars, apiVars,
                   issuerVars>>

\* A caller holds a credential another issuer signed.
IssueForeign ==
    /\ Idle
    /\ \E vc \in {issueKYCCredential(ForeignConfig, HolderDID, k, now) : k \in KycInputs} :
           /\ signed' = vc
           /\ doc' = vc
    /\ UNCHANGED <<now, jumps, otherVars, consentVars, reqVars, demoVars, apiVars, config, revoked, verification>>

\* Deployments of the same issuer and signing key on another network, or
\* with another registry contract (EAS_REGISTRY_CONTRACT).
OtherDeployments(cfg) ==
    {[cfg EXCEPT !.chainId = "5"], [cfg EXCEPT !.registryContract = "0xEAS-test"]}

\* A caller holds a credential this issuer's key signed in another deployment.
IssueElsewhere ==
    /\ Idle
    /\ \E other \in OtherDeployments(config) :
         \E vc \in {issueKYCCredential(other, HolderDID, k, now) : k \in KycInputs} :
           /\ signed' = vc
           /\ doc' = vc
    /\ UNCHANGED <<now, jumps, otherVars, consentVars, reqVars, demoVars, apiVars, config, revoked, verification>>

\* The documents that differ from vc in one field.
Alterations(vc) ==
    {[vc EXCEPT !.context = Bare(ContextW3C)],
     [vc EXCEPT !.type = List(<<"VerifiableCredential", "PlatinumCredential">>)],
     [vc EXCEPT !.issuer.id = OtherDID],
     [vc EXCEPT !.issuer = [string |-> IssuerId(vc.issuer)]],
     [vc EXCEPT !.issuer.name = "Somebody Else"],
     [vc EXCEPT !.issuanceDate = ToISOString(@.iso - DayMs)],
     [vc EXCEPT !.expirationDate = ToISOString(@.iso + 365 * DayMs)],
     [vc EXCEPT !.expirationDate = NoValue],
     [vc EXCEPT !.credentialSubject.id = OtherDID],
     [vc EXCEPT !.credentialStatus = NoValue],
     [vc EXCEPT !.proof.proofValue =
         SignTypedData(ForeignKey, Domain(config), TypedValue(vc))],
     [vc EXCEPT !.proof.proofValue = GarbageSignature],
     [vc EXCEPT !.proof = NoValue]} \ {vc}

\* The holder (or whoever relays the document) alters the signed document.
Alter ==
    /\ Idle
    /\ signed # NoDoc
    /\ doc = signed
    /\ \E altered \in Alterations(signed) : doc' = altered
    /\ UNCHANGED <<now, jumps, otherVars, consentVars, reqVars, demoVars, apiVars, config, signed, revoked, verification>>

\* The revocation registry flags a status entry.
RegistryRevoke ==
    /\ Idle
    /\ \E id \in StatusIds \ revoked : revoked' = revoked \cup {id}
    /\ UNCHANGED <<now, jumps, otherVars, consentVars, reqVars, demoVars, apiVars, config, signed, doc, verification>>

\* How a query to the revocation registry would end during a call.  The
\* body of checkRevocationStatus answers false after its try and after its
\* catch alike, so the outcome of verifyCredential does not depend on it.
RegistryLookups == {"answered", "error"}

\* A caller has the issuer verify the document it holds.
Verify ==
    /\ Idle
    /\ doc # NoDoc
    /\ \E lookup \in RegistryLookups :
           verification' = [vc |-> doc, at |-> now, registry |-> revoked,
                            lookup |-> lookup,
                            out |-> verifyCredential(config, doc, now)]
    /\ UNCHANGED <<now, jumps, otherVars, consentVars, reqVars, demoVars, apiVars, config, signed, doc, revoked>>

\* The caller has read the outcome.
VerifyReturn ==
    /\ verification # NoVerification
    /\ verification' = NoVerification
    /\ UNCHANGED <<now, jumps, otherVars, consentVars, reqVars, demoVars, apiVars, config, signed, doc, revoked>>

IssuerTick == Idle /\ Tick /\ UNCHANGED <<demoVars, issuerVars, apiVars, reqVars, consentVars, otherVars>>

IssuerNext ==
    Issue \/ IssueForeign \/ IssueElsewhere \/ Alter \/ RegistryRevoke \/ Verify
        \/ VerifyReturn
        \/ IssuerTick

----------------------------------------------------------------------------
(* The REST API: src/src/api/silobridge-api.ts *)

\* A vcURI: 'ipfs://<hash>', or a URI of another scheme.
IpfsURI(hash) == [scheme |-> "ipfs", rest |-> hash]
HttpsURI == [scheme |-> "https", rest |-> "example.org/vc/1"]

\* The hashes storeCredentialOnIPFS may draw (Math.random).
Hashes == {"Qm1", "Qm2"}

\* storeCredentialOnIPFS(vc): a fresh random name; nothing is stored.
storeCredentialOnIPFS(vc) == Hashes

\* {} as VerifiableCredential: a document with no field set.
EmptyVC ==
    [context |-> NoValue, type |-> NoValue, issuer |-> NoValue,
     issuanceDate |-> NoValue, expirationDate |-> NoValue,
     credentialSubject |-> NoValue, credentialStatus |-> NoValue, proof |-> NoValue]

\* fetchCredentialFromURI: the empty document for an ipfs:// URI, an error
\* for any other scheme.
fetchCredentialFromURI(uri) ==
    IF uri.scheme = "ipfs"
    THEN [threw |-> FALSE, vc |-> EmptyVC]
    ELSE [threw |-> TRUE, message |-> "Unsupported credential URI scheme"]

\* checkCredentialRequirements: "Mock requirement checking"
checkCredentialRequirements(vc, requirements) ==
    [valid |-> TRUE, reason |-> Undefined, metadata |-> NoMetadata]

\* vc.type.includes(tag)
HasType(vc, tag) == \E i \in DOMAIN vc.type.items : vc.type.items[i] = tag

\* extractCredentialClaims
extractCredentialClaims(vc) ==
    (IF HasType(vc, "ProofOfFundsCredential")
     THEN <<[claim |-> "Verified funds",
             amount |-> vc.credentialSubject.hasAsset.minimumAmount,
             currency |-> vc.credentialSubject.hasAsset.currency]>>
     ELSE <<>>)
    \o (IF HasType(vc, "KYCCredential") THEN <<[claim |-> "KYC Approved"]>> ELSE <<>>)
    \o (IF HasType(vc, "DeviceAttestationCredential")
        THEN <<[claim |-> "Device Verified"]>> ELSE <<>>)

\* Mutant: a failure result still lists a claim and metadata.
Failure_Exposing(reason, evaluated) ==
    [valid |-> FALSE, reason |-> reason, claims |-> <<[claim |-> "Verified funds"]>>,
     issuedBy |-> Undefined, expiresAt |-> NoValue, verifiedAt |-> NoValue,
     metadata |-> [amount |-> NoValue, currency |-> Undefined, tokenId |-> Undefined],
     evaluated |-> evaluated]

\* What verifyVC answers when a step failed.
Failure(reason, evaluated) ==
    [valid |-> FALSE, reason |-> reason, claims |-> <<>>, issuedBy |-> Undefined,
     expiresAt |-> NoValue, verifiedAt |-> NoValue, metadata |-> NoMetadata,
     evaluated |-> evaluated]

\* verifyVC(vcURI, requirements) at time t; `evaluated' lists the steps it ran.
verifyVC(cfg, vcURI, requirements, t) ==
    LET fetched == fetchCredentialFromURI(vcURI)
    IN  IF fetched.threw THEN Failure(fetched.message, <<"fetch">>)
        ELSE LET vc == fetched.vc
                 v  == verifyCredential(cfg, vc, t)
             IN  IF ~v.verified
                 THEN Failure(IF v.error # Undefined THEN v.error ELSE "Invalid credential",
                              <<"fetch">> \o v.evaluated)
                 ELSE LET requirementCheck == checkCredentialRequirements(vc, requirements)
                      IN  [valid |-> requirementCheck.valid,
                           reason |-> requirementCheck.reason,
                           claims |-> extractCredentialClaims(vc),
                           issuedBy |-> IF "string" \in DOMAIN vc.issuer
                                        THEN vc.issuer.string ELSE vc.issuer.name,
                           expiresAt |-> vc.expirationDate,
                           verifiedAt |-> Finite(t),
                           metadata |-> requirementCheck.metadata,
                           evaluated |-> <<"fetch">> \o v.evaluated
                                             \o <<"requirements", "claims">>]

\* requirements.minAmount as a number in a comparison (a numeric string is
\* converted).
ToNumber(x) == ParseFloat(x)

\* meetsRequirements of verifyPOFToken
meetsRequirements(pofData, requirements) ==
    /\ ~TruthyStr(requirements.requiredAsset) \/ pofData.asset = requirements.requiredAsset
    /\ ~Truthy(requirements.minAmount)
           \/ GreaterEq(ParseFloat(pofData.amount), ToNumber(requirements.minAmount))

\* verifyPOFToken(tokenId, requirements) at time t
verifyPOFToken(store, tokenId, requirements, t) ==
    LET pofData == Lookup(store, tokenId)
    IN  IF pofData = NotFound
        THEN Failure("PoF token not found", <<"lookup">>)
        ELSE [valid |-> meetsRequirements(pofData, requirements)
                          /\ pofData.kycCompliant /\ pofData.sanctionsCleared,
              reason |-> IF meetsRequirements(pofData, requirements)
                         THEN Undefined ELSE "Requirements not met",
              claims |-> <<[claim |-> "Holds", amount |-> pofData.amount,
                            currency |-> pofData.asset],
                           [claim |-> "KYC Compliant"], [claim |-> "Sanctions Cleared"]>>,
              issuedBy |-> "UnyKorn PoF Service",
              expiresAt |-> ToISOString(pofData.expiry * 1000),
              verifiedAt |-> Finite(t),
              metadata |-> [amount |-> pofData.amount, currency |-> pofData.asset,
                            tokenId |-> tokenId],
              evaluated |-> <<"lookup", "requirements">>]

\* POST /api/verify
ApiVerify(cfg, store, req, t) ==
    IF req.vcURI # NoValue
    THEN [status |-> 200,
          body |-> verifyVC(cfg, req.vcURI, [requiredAsset |-> req.requiredAsset,
                                             minAmount |-> req.minAmount], t)]
    ELSE IF TruthyStr(req.tokenId)
    THEN [status |-> 200,
          body |-> verifyPOFToken(store, req.tokenId,
                                  [requiredAsset |-> req.requiredAsset,
                                   minAmount |-> req.minAmount], t)]
    ELSE [status |-> 400,
          body |-> [valid |-> FALSE, reason |-> "Either vcURI or tokenId must be provided"]]

\* authenticate: 401 without a key, 403 for an unknown key, else pass (0)
DemoApiKey == "demo-key-123"

\* Mutant: the middleware lets every request through.
authenticate_Open(apiKey) == 0

authenticate(apiKey) ==
    IF ~TruthyStr(apiKey) THEN 401
    ELSE IF apiKey # DemoApiKey THEN 403
    ELSE 0

\* POST /api/vc/pof: the responses it may give (one per name the store draws)
ApiIssuePof(cfg, store, req, t) ==
    IF authenticate(req.apiKey) # 0
    THEN {[status |-> authenticate(req.apiKey), body |-> [error |-> "API key"]]}
    ELSE IF req.holderDID = NoValue \/ ~TruthyStr(req.tokenId)
    THEN {[status |-> 400, body |-> [error |-> "Validation failed"]]}
    ELSE IF Lookup(store, req.tokenId) = NotFound
    THEN {[status |-> 404, body |-> [error |-> "PoF token not found"]]}
    ELSE LET vc == issueProofOfFunds(cfg, req.holderDID, Lookup(store, req.tokenId), t)
         IN  {[status |-> 200,
               body |-> [vc |-> vc, vcURI |-> IpfsURI(h), issuedAt |-> ToISOString(t)]] :
                  h \in storeCredentialOnIPFS(vc)}

\* POST /api/vc/kyc
ApiIssueKyc(cfg, req, t) ==
    IF authenticate(req.apiKey) # 0
    THEN {[status |-> authenticate(req.apiKey), body |-> [error |-> "API key"]]}
    ELSE IF req.holderDID = NoValue \/ req.kycData = NoValue
    THEN {[status |-> 400, body |-> [error |-> "Validation failed"]]}
    ELSE LET vc == issueKYCCredential(cfg, req.holderDID, req.kycData, t)
         IN  {[status |-> 200,
               body |-> [vc |-> vc, vcURI |-> IpfsURI(h), issuedAt |-> ToISOString(t)]] :
                  h \in storeCredentialOnIPFS(vc)}

\* POST /api/vc/device
ApiIssueDevice(cfg, req, t) ==
    IF authenticate(req.apiKey) # 0
    THEN {[status |-> authenticate(req.apiKey), body |-> [error |-> "API key"]]}
    ELSE IF req.holderDID = NoValue \/ req.deviceData = NoValue
    THEN {[status |-> 400, body |-> [error |-> "Validation failed"]]}
    ELSE LET vc == issueDeviceAttestation(cfg, req.holderDID, req.deviceData, t)
         IN  {[status |-> 200,
               body |-> [vc |-> vc, vcURI |-> IpfsURI(h), issuedAt |-> ToISOString(t)]] :
                  h \in storeCredentialOnIPFS(vc)}

\* Request bodies the API is driven with.
ApiKeys == {Undefined, DemoApiKey, "wrong-key"}
ApiVcURIs == {NoValue, HttpsURI} \cup {IpfsURI(h) : h \in Hashes}
ApiTokenIds == {Undefined} \cup {p.tokenId : p \in PofInputs}
ApiAssets == {Undefined, "USDC", "ETH"}
ApiMinAmounts == {NoValue, Num(1000000), Num(6000000), Str(Chars10000)}
ApiVerifyRequests ==
    [vcURI : ApiVcURIs, tokenId : ApiTokenIds,
     requiredAsset : ApiAssets, minAmount : ApiMinAmounts]

NoURI == [t |-> "undefined"]

ApiInit ==
    /\ pofTokenStore = << >>
    /\ issuedURI = NoURI
    /\ apiResp = NoResp

ApiIdle == apiResp = NoResp /\ verification = NoVerification

PostVerify(requests) ==
    /\ ApiIdle
    /\ \E req \in requests :
           apiResp' = [endpoint |-> "verify", req |-> req,
                       resp |-> ApiVerify(config, pofTokenStore, req, now)]
    /\ UNCHANGED <<now, jumps, otherVars, consentVars, reqVars, demoVars, issuerVars, pofTokenStore, issuedURI>>

\* A client posts to /api/verify.
ApiPostVerify == PostVerify(ApiVerifyRequests)

\* A client posts to /api/verify with a vcURI and no tokenId.
ApiPostVerifyVC ==
    PostVerify({req \in ApiVerifyRequests :
                    req.vcURI # NoValue /\ req.tokenId = Undefined})

\* The issuance response reaches the caller: the credential and its vcURI.
Issued(endpoint, req, resp) ==
    /\ apiResp' = [endpoint |-> endpoint, req |-> req, resp |-> resp]
    /\ IF resp.status = 200
       THEN signed' = resp.body.vc /\ issuedURI' = resp.body.vcURI
       ELSE UNCHANGED <<signed, issuedURI>>
    /\ UNCHANGED <<now, jumps, otherVars, consentVars, reqVars, demoVars, config, doc, revoked, verification,
                   pofTokenStore>>

\* A partner posts to /api/vc/pof.
ApiPostIssuePof ==
    /\ ApiIdle
    /\ \E req \in [apiKey : ApiKeys, holderDID : {NoValue, HolderDID},
                   tokenId : ApiTokenIds] :
           \E resp \in ApiIssuePof(config, pofTokenStore, req, now) :
               Issued("vc/pof", req, resp)

\* A partner posts to /api/vc/kyc.
ApiPostIssueKyc ==
    /\ ApiIdle
    /\ \E req \in [apiKey : ApiKeys, holderDID : {NoValue, HolderDID},
                   kycData : KycInputs] :
           \E resp \in ApiIssueKyc(config, req, now) :
               Issued("vc/kyc", req, resp)

\* A partner posts to /api/vc/device.
ApiPostIssueDevice ==
    /\ ApiIdle
    /\ \E req \in [apiKey : ApiKeys, holderDID : {NoValue, HolderDID},
                   deviceData : DeviceInputs] :
           \E resp \in ApiIssueDevice(config, req, now) :
               Issued("vc/device", req, resp)

\* The ledger behind pofTokenStore records a token (the store stands for an
\* external ledger; no route of the API writes it).
ApiLedgerPut ==
    /\ ApiIdle
    /\ \E p \in PofInputs :
           /\ p.tokenId \notin DOMAIN pofTokenStore
           /\ pofTokenStore' = (p.tokenId :> p) @@ pofTokenStore
    /\ UNCHANGED <<now, jumps, otherVars, consentVars, reqVars, demoVars, issuerVars, issuedURI, apiResp>>

\* The client has read the response.
ApiDeliver ==
    /\ apiResp # NoResp
    /\ apiResp' = NoResp
    /\ UNCHANGED <<now, jumps, otherVars, consentVars, reqVars, demoVars, issuerVars, pofTokenStore, issuedURI>>

ApiTick == ApiIdle /\ Tick /\ UNCHANGED <<demoVars, issuerVars, apiVars, reqVars, consentVars, otherVars>>

ApiNext ==
    ApiPostVerify \/ ApiPostIssuePof \/ ApiPostIssueKyc \/ ApiPostIssueDevice
        \/ ApiLedgerPut \/ ApiDeliver \/ ApiTick

----------------------------------------------------------------------------
(* Consent and assertions: src/src/api/silobridge-api.ts *)

\* A duration in milliseconds given as a JSON number.
Ms(n) == [t |-> "ms", v |-> n]

\* The decimal digits of a natural number, as String(n) gives them.
RECURSIVE ToChars(_)
ToChars(n) ==
    LET d == <<"0", "1", "2", "3", "4", "5", "6", "7", "8", "9">>[(n % 10) + 1]
    IN  IF n < 10 THEN <<d>> ELSE Append(ToChars(n \div 10), d)

\* Date.now() + expiresIn: a sum for a number, a concatenation for a string.
Plus(t, expiresIn) ==
    IF expiresIn.t = "ms" THEN Ms(t + expiresIn.v)
    ELSE Str(ToChars(t) \o expiresIn.v)

\* isNumeric of express-validator, on the values the model sends.
IsNumeric(x) ==
    \/ x.t = "ms"
    \/ x.t = "num"
    \/ x.t = "str" /\ x.v # <<>> /\ \A i \in DOMAIN x.v : x.v[i] \in Digits

\* consent.expiresAt > Date.now(): a string operand is converted to the
\* number it spells (NaN, and so false, when it spells none).  Digit strings
\* are compared by length first, so that the number is never built.
ExpiresAfter(expiresAt, t) ==
    IF expiresAt.t = "ms" THEN expiresAt.v > t
    ELSE LET digits == expiresAt.v
         IN  /\ IsNumeric(expiresAt)
             /\ \/ Len(digits) > Len(ToChars(t))
                \/ Len(digits) = Len(ToChars(t)) /\ DecimalValue(digits, 0) > t

KycScope == "kyc_status"
BalanceScope == "balance_verification"
DeviceScope == "device_attestation"
Scopes == {KycScope, BalanceScope, DeviceScope}

\* array.includes(x) and the elements of an array
Elements(list) == {list.items[i] : i \in DOMAIN list.items}

\* consentStore.get(userId) || []
UserConsents(store, userId) == store[userId]

\* Mutant: checkConsent accepts a grant to the requester whatever its scopes.
checkConsent_AnyScope(store, userId, requesterId, scope, t) ==
    \E i \in DOMAIN UserConsents(store, userId) :
        LET consent == UserConsents(store, userId)[i]
        IN  consent.grantedTo = requesterId /\ ExpiresAfter(consent.expiresAt, t)

\* checkConsent(userId, requesterId, scope) at time t
checkConsent(store, userId, requesterId, scope, t) ==
    \E i \in DOMAIN UserConsents(store, userId) :
        LET consent == UserConsents(store, userId)[i]
        IN  /\ consent.grantedTo = requesterId
            /\ scope \in Elements(consent.scopes)
            /\ ExpiresAfter(consent.expiresAt, t)

\* scopes.some(scope => c.scopes.includes(scope))
Overlaps(scopes, c) == Elements(scopes) \cap Elements(c.scopes) # {}

\* expiresIn = 30 * 24 * 60 * 60 * 1000 when the body carries none
DefaultExpiresIn == Ms(ThirtyDaysMs)

\* Mutant: the grant is appended and no earlier grant is removed.
GrantStore_AppendOnly(store, req, t) ==
    LET expiresIn == IF req.expiresIn = NoValue THEN DefaultExpiresIn ELSE req.expiresIn
    IN  [store EXCEPT ![req.userId] =
            Append(UserConsents(store, req.userId),
                   [userId |-> req.userId, grantedTo |-> req.grantedTo,
                    scopes |-> req.scopes, expiresAt |-> Plus(t, expiresIn)])]

\* The store after the grant handler ran on a valid body at time t.
GrantStore(store, req, t) ==
    LET expiresIn == IF req.expiresIn = NoValue THEN DefaultExpiresIn ELSE req.expiresIn
        consent == [userId |-> req.userId, grantedTo |-> req.grantedTo,
                    scopes |-> req.scopes, expiresAt |-> Plus(t, expiresIn)]
        keeps(c) == ~(c.grantedTo = req.grantedTo /\ Overlaps(req.scopes, c))
    IN  [store EXCEPT ![req.userId] = Append(SelectSeq(UserConsents(store, req.userId), keeps),
                                             consent)]

\* Mutant: a revoke without scopes is handled like one with an empty list.
RevokeStore_ScopesOnly(store, req) ==
    LET byScopes(c) ==
            ~(c.grantedTo = req.revokeFrom /\ req.scopes # NoValue /\ Overlaps(req.scopes, c))
    IN  [store EXCEPT ![req.userId] = SelectSeq(UserConsents(store, req.userId), byScopes)]

\* The store after the revoke handler ran on a valid body.
RevokeStore(store, req) ==
    LET byScopes(c) == ~(c.grantedTo = req.revokeFrom /\ Overlaps(req.scopes, c))
        byRequester(c) == c.grantedTo # req.revokeFrom
    IN  [store EXCEPT ![req.userId] =
            IF req.scopes # NoValue
            THEN SelectSeq(UserConsents(store, req.userId), byScopes)
            ELSE SelectSeq(UserConsents(store, req.userId), byRequester)]

\* validateRequest of /api/consent/grant
GrantBodyValid(req) ==
    /\ TruthyStr(req.userId)
    /\ TruthyStr(req.grantedTo)
    /\ req.scopes # NoValue /\ req.scopes.array /\ req.scopes.items # <<>>
    /\ req.expiresIn = NoValue \/ IsNumeric(req.expiresIn)

\* validateRequest of /api/consent/revoke
RevokeBodyValid(req) ==
    /\ TruthyStr(req.userId)
    /\ TruthyStr(req.revokeFrom)
    /\ req.scopes = NoValue \/ req.scopes.array

ValidationFailed == [status |-> 400, body |-> [error |-> "Validation failed"]]

\* POST /api/consent/grant at time t: the response and the store it leaves
ConsentGrant(store, req, t) ==
    IF ~GrantBodyValid(req) THEN [resp |-> ValidationFailed, store |-> store]
    ELSE LET after == GrantStore(store, req, t)
             consent == after[req.userId][Len(after[req.userId])]
         IN  [resp |-> [status |-> 200,
                        body |-> [success |-> TRUE,
                                  consentId |-> <<req.userId, req.grantedTo, t>>,
                                  expiresAt |-> consent.expiresAt]],
              store |-> after]

\* POST /api/consent/revoke at time t: the response and the store it leaves
ConsentRevoke(store, req, t) ==
    IF ~RevokeBodyValid(req) THEN [resp |-> ValidationFailed, store |-> store]
    ELSE [resp |-> [status |-> 200, body |-> [success |-> TRUE, revokedAt |-> t]],
          store |-> RevokeStore(store, req)]

AssertionKinds == {"hasKYC", "hasBalance", "isDeviceCompliant"}

\* Mutant: every assertion route asks for the KYC scope.
ScopeOf_Kyc(kind) == KycScope

\* The scope each assertion route passes to checkConsent.
ScopeOf(kind) ==
    CASE kind = "hasKYC"            -> KycScope
      [] kind = "hasBalance"        -> BalanceScope
      [] kind = "isDeviceCompliant" -> DeviceScope

\* The fact provider each assertion route calls.
ProviderOf(kind) ==
    CASE kind = "hasKYC"            -> "checkUserKYC"
      [] kind = "hasBalance"        -> "checkUserBalance"
      [] kind = "isDeviceCompliant" -> "checkDeviceCompliance"

\* Mutant: every assertion is valid for a day.
AssertionBody_DayForAll(kind, req, t) ==
    [assertion |-> kind, result |-> TRUE, proof |-> "ipfs://Qm...",
     issuedAt |-> t, validUntil |-> t + DayMs]

\* The body of a granted assertion (the providers are mocks that approve).
AssertionBody(kind, req, t) ==
    CASE kind = "hasKYC" ->
            [assertion |-> "has_kyc", result |-> TRUE, proof |-> "ipfs://QmKYC...",
             issuedAt |-> t, validUntil |-> t + DayMs]
      [] kind = "hasBalance" ->
            [assertion |-> "has_minimum_balance", result |-> TRUE,
             proof |-> "ipfs://QmBalance...",
             issuedAt |-> t, validUntil |-> t + HourSec * 1000]
      [] kind = "isDeviceCompliant" ->
            [assertion |-> "device_compliant", result |-> TRUE,
             proof |-> "ipfs://QmDevice...",
             issuedAt |-> t, validUntil |-> t + WeekMs]

\* validateRequest of the assertion routes: hasBalance needs a numeric
\* minAmount in the query.
AssertionQueryValid(kind, req) ==
    kind = "hasBalance" => req.minAmount # NoValue /\ IsNumeric(req.minAmount)

\* GET /api/assertions/<kind>/:userId at time t; `consulted' names the fact
\* provider the route called, if any.
Assertion(kind, store, req, t) ==
    IF authenticate(req.apiKey) # 0
    THEN [status |-> authenticate(req.apiKey), consulted |-> "none",
          body |-> [error |-> IF authenticate(req.apiKey) = 401
                              THEN "API key required" ELSE "Invalid API key"]]
    ELSE IF ~AssertionQueryValid(kind, req)
    THEN [status |-> 400, consulted |-> "none", body |-> [error |-> "Validation failed"]]
    ELSE IF ~checkConsent(store, req.userId, req.apiKey, ScopeOf(kind), t)
    THEN [status |-> 403, consulted |-> "none",
          body |-> [error |-> "Consent required",
                    consentUrl |-> [path |-> "/consent/grant", scope |-> ScopeOf(kind),
                                    requester |-> req.apiKey]]]
    ELSE [status |-> 200, consulted |-> ProviderOf(kind),
          body |-> AssertionBody(kind, req, t)]

\* Request bodies the consent and assertion routes are driven with.
Users == {"user-1"}
OtherPartner == "partner-2"
Requesters == {DemoApiKey, OtherPartner}
ScopeLists ==
    {List(<<KycScope>>), List(<<DeviceScope>>), List(<<KycScope, BalanceScope>>)}
ExpiresIns == {NoValue, Str(ToChars(WeekMs))}
GrantRequests ==
    [userId : Users, grantedTo : {DemoApiKey},
     scopes : ScopeLists \cup {List(<<>>)}, expiresIn : ExpiresIns]
    \cup [userId : Users, grantedTo : {OtherPartner},
          scopes : {List(<<KycScope, BalanceScope>>)}, expiresIn : {NoValue}]
RevokeRequests ==
    [userId : Users, revokeFrom : Requesters,
     scopes : {NoValue, List(<<>>), List(<<KycScope>>), List(<<DeviceScope>>)}]
AssertionRequests ==
    [apiKey : ApiKeys, userId : Users, minAmount : {NoValue, Str(Chars10000)}]

ConsentInit ==
    /\ consentStore = [u \in Users |-> <<>>]
    /\ consentResp = NoResp
    /\ inFlight = {}
    /\ handled = <<>>

\* A user posts to /api/consent/grant.
ConsentPostGrant ==
    /\ consentResp = NoResp
    /\ \E req \in GrantRequests :
           LET out == ConsentGrant(consentStore, req, now)
           IN  /\ consentStore' = out.store
               /\ consentResp' = [endpoint |-> "grant", req |-> req, resp |-> out.resp,
                                  before |-> consentStore, at |-> now]
    /\ UNCHANGED <<now, jumps, otherVars, demoVars, issuerVars, apiVars, reqVars, inFlight, handled>>

\* A user posts to /api/consent/revoke.
ConsentPostRevoke ==
    /\ consentResp = NoResp
    /\ \E req \in RevokeRequests :
           LET out == ConsentRevoke(consentStore, req, now)
           IN  /\ consentStore' = out.store
               /\ consentResp' = [endpoint |-> "revoke", req |-> req, resp |-> out.resp,
                                  before |-> consentStore, at |-> now]
    /\ UNCHANGED <<now, jumps, otherVars, demoVars, issuerVars, apiVars, reqVars, inFlight, handled>>

\* A partner asks for an assertion.
GetAssertion ==
    /\ consentResp = NoResp
    /\ \E kind \in AssertionKinds, req \in AssertionRequests :
           consentResp' = [endpoint |-> kind, req |-> req,
                           resp |-> Assertion(kind, consentStore, req, now),
                           before |-> consentStore, at |-> now]
    /\ UNCHANGED <<now, jumps, otherVars, demoVars, issuerVars, apiVars, reqVars, consentStore,
                   inFlight, handled>>

\* The caller has read the response.
ConsentDeliver ==
    /\ consentResp # NoResp
    /\ consentResp' = NoResp
    /\ UNCHANGED <<now, jumps, otherVars, demoVars, issuerVars, apiVars, reqVars, consentStore,
                   inFlight, handled>>

\* Time passes; a caller may still hold the answer to its grant or revoke.
ConsentTick ==
    consentResp.endpoint \in {"none", "grant", "revoke"} /\ Tick
        /\ UNCHANGED <<demoVars, issuerVars, apiVars, reqVars, consentVars, otherVars>>

ConsentNext ==
    ConsentPostGrant \/ ConsentPostRevoke \/ GetAssertion \/ ConsentDeliver
        \/ ConsentTick

----------------------------------------------------------------------------
(* Concurrent consent requests *)

\* Consent requests sent concurrently for one user and one requester.
ConcurrentRequests ==
    {[kind |-> "grant", req |-> r] :
        r \in {g \in GrantRequests : /\ g.grantedTo = DemoApiKey
                                     /\ g.expiresIn = NoValue
                                     /\ GrantBodyValid(g)}}
    \cup {[kind |-> "revoke", req |-> r] :
            r \in {v \in RevokeRequests : /\ v.revokeFrom = DemoApiKey
                                          /\ v.scopes \in {NoValue, List(<<KycScope>>)}}}

\* Mutant: the handler works on the list as it was when the request arrived.
HandlerReads_AtArrival(current, arrived) == arrived

\* consentStore.get(userId) in a handler: the store as it is when the handler
\* runs.  No await stands between this read and consentStore.set.
HandlerReads(current, arrived) == current

\* The store a consent handler leaves when it runs on `store' at time t.
HandlerStore(store, kind, req, t) ==
    IF kind = "grant" THEN ConsentGrant(store, req, t).store
    ELSE ConsentRevoke(store, req, t).store

\* A request reaches the server; its validators run before the handler, so
\* other requests may be handled in between.
Receive ==
    /\ Cardinality(inFlight) < MaxInFlight
    /\ Len(handled) + Cardinality(inFlight) < MaxHandled
    /\ \E c \in ConcurrentRequests :
           inFlight' = inFlight \cup {[kind |-> c.kind, req |-> c.req,
                                       arrived |-> consentStore]}
    /\ UNCHANGED <<now, jumps, otherVars, demoVars, issuerVars, apiVars, reqVars, consentStore,
                   consentResp, handled>>

\* The handler of one request in flight runs to completion.
Handle ==
    /\ \E r \in inFlight :
           /\ consentStore' = HandlerStore(HandlerReads(consentStore, r.arrived),
                                           r.kind, r.req, now)
           /\ inFlight' = inFlight \ {r}
           /\ handled' = Append(handled, [kind |-> r.kind, req |-> r.req,
                                         arrived |-> r.arrived, at |-> now])
    /\ UNCHANGED <<now, jumps, otherVars, demoVars, issuerVars, apiVars, reqVars, consentResp>>

ConcurrentNext == Receive \/ Handle

----------------------------------------------------------------------------
(* Claims about credential verification *)

Verified == verification # NoVerification

\* The checks of credential verification in the order the specification
\* gives, each with the reason its failure is reported under.
CheckOrder == <<"signature", "expiry", "revocation">>

CheckFails(check, vc, t) ==
    CASE check = "signature"  -> ~verifyVCSignature(config, vc)
      [] check = "expiry"     -> Expired(vc, t)
      [] check = "revocation" -> checkRevocationStatus(vc)

ReasonOf(check) ==
    CASE check = "signature"  -> "Invalid signature"
      [] check = "expiry"     -> "Credential expired"
      [] check = "revocation" -> "Credential revoked"

\* The position of the earliest failing check, 0 when none fails.
FirstFailing(vc, t) ==
    LET failing == {i \in DOMAIN CheckOrder : CheckFails(CheckOrder[i], vc, t)}
    IN  IF failing = {} THEN 0
        ELSE CHOOSE i \in failing : \A j \in failing : i <= j

\* C4: credential verification runs signature, expiry, revocation and then
\* the requirement check, and stops at the first that fails: the reason is
\* that of the earliest failing check and the checks evaluated are exactly
\* those up to it; through verifyVC the same holds with the fetch before and
\* the requirement check and claim extraction after, neither of which runs
\* once a check has failed.
C4_ChecksInOrderShortCircuit ==
    /\ Verified =>
           LET i == FirstFailing(verification.vc, verification.at)
               out == verification.out
           IN  IF i = 0
               THEN out.verified /\ out.evaluated = CheckOrder
               ELSE /\ ~out.verified
                    /\ out.error = ReasonOf(CheckOrder[i])
                    /\ out.evaluated = SubSeq(CheckOrder, 1, i)
    /\ (apiResp # NoResp /\ apiResp.endpoint = "verify" /\ apiResp.resp.status = 200
        /\ apiResp.req.vcURI # NoValue /\ apiResp.req.vcURI.scheme = "ipfs") =>
           LET vc == fetchCredentialFromURI(apiResp.req.vcURI).vc
               i == FirstFailing(vc, now)
               body == apiResp.resp.body
           IN  IF i # 0
               THEN /\ ~body.valid
                    /\ body.reason = ReasonOf(CheckOrder[i])
                    /\ body.evaluated = <<"fetch">> \o SubSeq(CheckOrder, 1, i)
                    /\ body.claims = <<>>
               ELSE /\ SubSeq(body.evaluated, 1, 5)
                           = <<"fetch">> \o CheckOrder \o <<"requirements">>
                    /\ ~body.valid => Len(body.evaluated) = 5

\* C4 witness: a document that is both expired and badly signed was verified;
\* only the signature check ran and its reason was reported.
C4_Witness ==
    /\ Verified
    /\ Expired(verification.vc, verification.at)
    /\ ~verifyVCSignature(config, verification.vc)
    /\ verification.out.evaluated = <<"signature">>
    /\ verification.out.error = "Invalid signature"

\* The address the proof of a document recovers to under the verifier's
\* domain; nobody's when the document carries no signature.
RecoveredSigner(vc) ==
    IF vc.proof = NoValue \/ vc.proof.proofValue \in {NoValue, EmptyString, GarbageSignature}
    THEN UnrelatedAddress
    ELSE VerifyTypedData(Domain(config), TypedValue(vc), vc.proof.proofValue)

\* C5: a credential whose signature recovers to a signer other than the
\* issuer its issuer field names fails with the invalid-signature outcome,
\* and a credential is reported verified only when the recovered signer is
\* that claimed issuer.
C5_SignerIsClaimedIssuer ==
    Verified =>
        LET vc == verification.vc
            claimed == DidAddress(IssuerId(vc.issuer))
        IN  /\ RecoveredSigner(vc) # claimed
                  => verification.out.error = "Invalid signature"
            /\ verification.out.verified => RecoveredSigner(vc) = claimed

SignedFields ==
    {"context", "type", "issuer.id", "issuanceDate", "expirationDate",
     "credentialSubject", "proofValue"}

FieldOf(vc, field) ==
    CASE field = "context"           -> vc.context
      [] field = "type"              -> vc.type
      [] field = "issuer.id"         -> IssuerId(vc.issuer)
      [] field = "issuanceDate"      -> vc.issuanceDate
      [] field = "expirationDate"    -> vc.expirationDate
      [] field = "credentialSubject" -> vc.credentialSubject
      [] field = "proofValue"        -> IF vc.proof = NoValue THEN NoValue
                                        ELSE vc.proof.proofValue

ChangedFields(a, b) == {f \in SignedFields : FieldOf(a, f) # FieldOf(b, f)}

\* C6: a signed credential in which the proof value or exactly one signed
\* field (context, type, issuer id, issuanceDate, expirationDate,
\* credentialSubject) has been changed fails verification with the
\* invalid-signature outcome.
C6_AlteredFieldBreaksSignature ==
    (Verified /\ signed # NoDoc
     /\ Cardinality(ChangedFields(signed, verification.vc)) = 1)
    => /\ ~verification.out.verified
       /\ verification.out.error = "Invalid signature"

\* C6 witness: an expired credential whose expirationDate alone was moved
\* into the future was verified and rejected for its signature.
C6_Witness ==
    /\ Verified /\ signed # NoDoc
    /\ ChangedFields(signed, verification.vc) = {"expirationDate"}
    /\ Expired(signed, verification.at)
    /\ ~Expired(verification.vc, verification.at)
    /\ verification.out.error = "Invalid signature"

\* C7: verification of a credential whose expirationDate is earlier than the
\* verification time returns the expired outcome, whatever its signature:
\* through VCIssuer.verifyCredential and through the credential branch of
\* the demo's /api/verify.
C7_ExpiredAlwaysReported ==
    /\ (Verified
        /\ verification.vc.expirationDate \notin {NoValue, EmptyString}
        /\ Less(DateParse(verification.vc.expirationDate), Finite(verification.at)))
       => /\ ~verification.out.verified
          /\ verification.out.error = "Credential expired"
    /\ (demoResp.endpoint = "verify"
        /\ TruthyStr(demoResp.req.vcURI)
        /\ demoResp.req.vcURI \in DOMAIN mockVCRegistry
        /\ Less(DateParse(mockVCRegistry[demoResp.req.vcURI].expiresAt), Finite(now)))
       => /\ ~demoResp.resp.body.valid
          /\ demoResp.resp.body.reason = "Credential expired"

\* C8: verification of a credential whose status entry the revocation
\* registry flags as revoked returns the revoked outcome, also when its
\* signature and expiry checks pass.
C8_RevokedIsReported ==
    (Verified
     /\ verification.vc.credentialStatus # NoValue
     /\ verification.vc.credentialStatus.id \in verification.registry
     /\ verifyVCSignature(config, verification.vc)
     /\ ~Expired(verification.vc, verification.at))
    => /\ ~verification.out.verified
       /\ verification.out.error = "Credential revoked"

----------------------------------------------------------------------------
(* The requirement step of each rail, applied as a function *)

NoCase == [rail |-> "none"]

ReqInit == requirementCase = NoCase

\* What one application of a requirement step is recorded as: the record's
\* asset and amount, the requirements, the valid flag returned and whether
\* the requirement step itself reported a failure.
Case(rail, asset, amount, requirements, valid, failed) ==
    [rail |-> rail, asset |-> asset, amount |-> amount,
     requirements |-> requirements, valid |-> valid, failed |-> failed]

ApiRequirements == [requiredAsset : ApiAssets, minAmount : ApiMinAmounts]
DemoRequirementSets == [requiredAsset : DemoAssets, minAmount : DemoMinAmounts]

\* checkCredentialRequirements is applied to an issued proof-of-funds
\* credential.
CheckCredential ==
    /\ requirementCase = NoCase
    /\ \E p \in PofInputs, r \in ApiRequirements :
           LET vc  == issueProofOfFunds(config, HolderDID, p, now)
               out == checkCredentialRequirements(vc, r)
           IN  requirementCase' =
                   Case("credential", vc.credentialSubject.hasAsset.currency,
                        vc.credentialSubject.hasAsset.minimumAmount, r,
                        out.valid, ~out.valid)
    /\ UNCHANGED <<now, jumps, otherVars, consentVars, demoVars, issuerVars, apiVars>>

\* verifyPOFToken is applied to a token the store holds.
CheckPOFToken ==
    /\ requirementCase = NoCase
    /\ \E p \in PofInputs, r \in ApiRequirements :
           LET out == verifyPOFToken(p.tokenId :> p, p.tokenId, r, now)
           IN  requirementCase' =
                   Case("token", p.asset, p.amount, r, out.valid,
                        out.reason = "Requirements not met")
    /\ UNCHANGED <<now, jumps, otherVars, consentVars, demoVars, issuerVars, apiVars>>

DemoRequirementReasons == {"Asset mismatch", "Insufficient amount"}

\* The token branch of the demo's /api/verify is applied to a registry record.
CheckDemoToken ==
    /\ requirementCase = NoCase
    /\ \E amount \in LedgerAmounts, asset \in LedgerAssets, r \in DemoRequirementSets :
           LET registry == [InitialNFTRegistry EXCEPT ![KnownTokenId].amount = amount,
                                                      ![KnownTokenId].asset = asset]
               out == DemoVerifyNFT([tokenId |-> KnownTokenId,
                                     requiredAsset |-> r.requiredAsset,
                                     minAmount |-> r.minAmount], registry, now)
           IN  requirementCase' =
                   Case("demo-token", asset, amount, r, out.valid,
                        out.reason \in DemoRequirementReasons)
    /\ UNCHANGED <<now, jumps, otherVars, consentVars, demoVars, issuerVars, apiVars>>

\* The credential branch of the demo's /api/verify is applied to the
\* registered credential.
CheckDemoCredential ==
    /\ requirementCase = NoCase
    /\ \E r \in DemoRequirementSets :
           LET vcData == mockVCRegistry[KnownVcURI]
               out == DemoVerifyVC([vcURI |-> KnownVcURI,
                                    requiredAsset |-> r.requiredAsset,
                                    minAmount |-> r.minAmount], now)
           IN  requirementCase' =
                   Case("demo-credential", vcData.metadata.currency,
                        vcData.metadata.amount, r, out.valid,
                        out.reason \in DemoRequirementReasons)
    /\ UNCHANGED <<now, jumps, otherVars, consentVars, demoVars, issuerVars, apiVars>>

CheckReturn ==
    /\ requirementCase # NoCase
    /\ requirementCase' = NoCase
    /\ UNCHANGED <<now, jumps, otherVars, consentVars, demoVars, issuerVars, apiVars>>

ReqNext ==
    CheckCredential \/ CheckPOFToken \/ CheckDemoToken \/ CheckDemoCredential
        \/ CheckReturn

----------------------------------------------------------------------------
(* Claims about the REST API and the requirement step *)

\* C9: after a credential has been issued through the API and its vcURI
\* returned, verifying that vcURI through /api/verify with no requirement
\* set answers valid true while the credential is unexpired and unrevoked.
C9_IssuedCredentialVerifies ==
    (/\ apiResp.endpoint = "verify"
     /\ issuedURI # NoURI
     /\ apiResp.req.vcURI = issuedURI
     /\ apiResp.req.requiredAsset = Undefined
     /\ apiResp.req.minAmount = NoValue
     /\ ~Expired(signed, now)
     /\ (signed.credentialStatus = NoValue \/ signed.credentialStatus.id \notin revoked))
    => apiResp.resp.status = 200 /\ apiResp.resp.body.valid

----------------------------------------------------------------------------
(* Claims about requirement reasons and the token rail *)

\* The asset and amount of the record a pending demo /api/verify answer was
\* computed from; none when the record was not found or no rail was named.
DemoRecordOf(resp) ==
    IF TruthyStr(resp.req.vcURI)
    THEN (IF resp.req.vcURI \in DOMAIN mockVCRegistry
          THEN [found |-> TRUE,
                asset |-> mockVCRegistry[resp.req.vcURI].metadata.currency,
                amount |-> mockVCRegistry[resp.req.vcURI].metadata.amount]
          ELSE [found |-> FALSE])
    ELSE IF TruthyStr(resp.req.tokenId) /\ resp.req.tokenId \in DOMAIN mockNFTRegistry
    THEN [found |-> TRUE,
          asset |-> mockNFTRegistry[resp.req.tokenId].asset,
          amount |-> mockNFTRegistry[resp.req.tokenId].amount]
    ELSE [found |-> FALSE]

AssetMismatch(record, req) ==
    TruthyStr(req.requiredAsset) /\ record.asset # req.requiredAsset

AmountShort(record, req) ==
    Truthy(req.minAmount) /\ Less(ParseFloat(record.amount), ParseFloat(req.minAmount))

\* C11: when verification fails at the requirement step the reason names the
\* first requirement that failed: the asset mismatch when requiredAsset does
\* not match, otherwise the amount shortfall when the amount is below
\* minAmount.
C11_ReasonNamesFirstFailedRequirement ==
    (demoResp.endpoint = "verify" /\ DemoRecordOf(demoResp).found) =>
        LET record == DemoRecordOf(demoResp)
            req    == demoResp.req
            body   == demoResp.resp.body
        IN  /\ AssetMismatch(record, req)
                  => ~body.valid /\ body.reason = "Asset mismatch"
            /\ (~AssetMismatch(record, req) /\ AmountShort(record, req))
                  => ~body.valid /\ body.reason = "Insufficient amount"

\* The record's own valid flag; a record that carries none does not fail it.
ValidFlag(record) == IF "valid" \in DOMAIN record THEN record.valid ELSE TRUE

\* What the token rail must find in a record to answer valid true.
TokenRecordGood(record, t) ==
    /\ ValidFlag(record)
    /\ record.expiry * 1000 > t
    /\ record.kycCompliant
    /\ record.sanctionsCleared

----------------------------------------------------------------------------
(* Claims about consent and assertions *)

\* The scope the specification maps each assertion to.
MappedScope(kind) ==
    CASE kind = "hasKYC"            -> "kyc_status"
      [] kind = "hasBalance"        -> "balance_verification"
      [] kind = "isDeviceCompliant" -> "device_attestation"

\* The stored grants of a user to a requester that cover a scope.
Covering(store, userId, requester, scope) ==
    {i \in DOMAIN store[userId] :
        /\ store[userId][i].grantedTo = requester
        /\ scope \in Elements(store[userId][i].scopes)}

\* The user has a grant to the requester for the scope whose stored expiry
\* lies after t.
HasUnexpiredGrant(store, userId, requester, scope, t) ==
    \E i \in Covering(store, userId, requester, scope) :
        ExpiresAfter(store[userId][i].expiresAt, t)

AssertionAnswered == consentResp.endpoint \in AssertionKinds

\* The caller of the answered assertion request holds the mapped consent.
CallerHasConsent ==
    HasUnexpiredGrant(consentResp.before, consentResp.req.userId, consentResp.req.apiKey,
                      MappedScope(consentResp.endpoint), consentResp.at)

\* C13: for hasKYC, hasBalance and isDeviceCompliant the fact provider is
\* consulted and an assertion returned only if, at request time, the subject
\* has an unexpired grant to the calling requester covering the mapped scope
\* (kyc_status, balance_verification, device_attestation); a grant for
\* another scope or to another requester authorizes nothing.
C13_AssertionOnlyWithMappedConsent ==
    AssertionAnswered =>
        ((consentResp.resp.status = 200 \/ consentResp.resp.consulted # "none")
            => /\ CallerHasConsent
               /\ consentResp.resp.consulted = ProviderOf(consentResp.endpoint))

\* C13 witness: a balance assertion was returned to a caller holding a grant
\* that covers balance_verification.
C13_Witness ==
    /\ consentResp.endpoint = "hasBalance"
    /\ consentResp.resp.status = 200
    /\ consentResp.resp.consulted = "checkUserBalance"
    /\ CallerHasConsent

\* C14: an authenticated, well-formed assertion request without consent gets
\* 403 'Consent required' with a consentUrl naming the required scope and
\* the requester, no assertion result or proof, and the consent store is
\* left unchanged.
C14_ConsentRequiredAnswer ==
    (AssertionAnswered /\ authenticate(consentResp.req.apiKey) = 0
     /\ AssertionQueryValid(consentResp.endpoint, consentResp.req)
     /\ ~CallerHasConsent)
    => /\ consentResp.resp.status = 403
       /\ consentResp.resp.body.error = "Consent required"
       /\ consentResp.resp.body.consentUrl.scope = MappedScope(consentResp.endpoint)
       /\ consentResp.resp.body.consentUrl.requester = consentResp.req.apiKey
       /\ DOMAIN consentResp.resp.body = {"error", "consentUrl"}
       /\ consentResp.resp.consulted = "none"
       /\ consentStore = consentResp.before

\* C14 witness: a balance assertion was refused for lack of consent although
\* another requester holds a grant covering that scope.
C14_Witness ==
    /\ consentResp.endpoint = "hasBalance"
    /\ consentResp.resp.status = 403
    /\ consentResp.resp.body.error = "Consent required"
    /\ HasUnexpiredGrant(consentStore, consentResp.req.userId, OtherPartner,
                         BalanceScope, consentResp.at)

\* The ttl a grant request asks for, in milliseconds.
TtlOf(req) ==
    IF req.expiresIn = NoValue THEN ThirtyDaysMs
    ELSE IF req.expiresIn.t = "ms" THEN req.expiresIn.v
    ELSE DecimalValue(req.expiresIn.v, 0)

GrantAnswered == consentResp.endpoint = "grant" /\ consentResp.resp.status = 200
RevokeAnswered == consentResp.endpoint = "revoke" /\ consentResp.resp.status = 200

\* C15: after grant(subject, requester, scopes, ttl), with no other request
\* in between, hasConsent(subject, requester, s) is true for every s in
\* scopes until ttl has elapsed and false once it has.
C15_GrantLastsExactlyTtl ==
    GrantAnswered =>
        \A s \in Elements(consentResp.req.scopes) :
            checkConsent(consentStore, consentResp.req.userId,
                         consentResp.req.grantedTo, s, now)
                <=> now < consentResp.at + TtlOf(consentResp.req)

\* C16: after revoke(subject, requester) without scopes, hasConsent(subject,
\* requester, s) is false for every scope s until a new grant is made,
\* whatever grants to that requester existed before.
C16_RevokeAllRemovesEveryScope ==
    (RevokeAnswered /\ consentResp.req.scopes = NoValue) =>
        \A s \in Scopes :
            ~checkConsent(consentStore, consentResp.req.userId,
                          consentResp.req.revokeFrom, s, now)

\* C16 witness: a revoke without scopes was answered for a requester that
\* held unexpired grants for two scopes in separate grants.
C16_Witness ==
    /\ RevokeAnswered /\ consentResp.req.scopes = NoValue
    /\ Cardinality({i \in DOMAIN consentResp.before[consentResp.req.userId] :
          /\ consentResp.before[consentResp.req.userId][i].grantedTo
                 = consentResp.req.revokeFrom
          /\ ExpiresAfter(consentResp.before[consentResp.req.userId][i].expiresAt,
                          consentResp.at)}) = 2

\* C17: revoke(subject, requester, scopes) removes only the listed scopes:
\* afterwards hasConsent is false for each revoked scope and still true for
\* every other unexpired scope granted to that requester before, also one
\* granted in the same grant as a revoked scope.
C17_RevokeScopesKeepsOthers ==
    (RevokeAnswered /\ consentResp.req.scopes # NoValue) =>
        \A s \in Scopes :
            checkConsent(consentStore, consentResp.req.userId,
                         consentResp.req.revokeFrom, s, consentResp.at)
                <=> /\ s \notin Elements(consentResp.req.scopes)
                    /\ checkConsent(consentResp.before, consentResp.req.userId,
                                    consentResp.req.revokeFrom, s, consentResp.at)

\* C18: in every reachable state of the consent store, for each subject,
\* requester and scope at most one stored grant covers the scope.
C18_OneGrantPerScope ==
    \A u \in Users, r \in Requesters, s \in Scopes :
        Cardinality(Covering(consentStore, u, r, s)) <= 1

\* C18 witness: a grant was stored in place of an earlier grant to the same
\* requester that covered one of its scopes.
C18_Witness ==
    /\ GrantAnswered
    /\ \E s \in Elements(consentResp.req.scopes) :
           /\ Covering(consentResp.before, consentResp.req.userId,
                       consentResp.req.grantedTo, s) # {}
           /\ Cardinality(Covering(consentStore, consentResp.req.userId,
                                   consentResp.req.grantedTo, s)) = 1

\* The store after the requests of a sequence ran one at a time, in order.
RECURSIVE Replay(_, _)
Replay(store, requests) ==
    IF requests = <<>> THEN store
    ELSE Replay(HandlerStore(store, Head(requests).kind, Head(requests).req,
                             Head(requests).at),
                Tail(requests))

\* The orders in which n requests can run.
Orders(n) == {p \in [1..n -> 1..n] : \A i, j \in 1..n : p[i] = p[j] => i = j}

\* C19: concurrent grant and revoke requests for the same subject and
\* requester never lose an update: the consent store equals the result of
\* running the handled requests one at a time in some order.
C19_ConsentRequestsSerialize ==
    \E p \in Orders(Len(handled)) :
        consentStore = Replay([u \in Users |-> <<>>],
                              [i \in 1..Len(handled) |-> handled[p[i]]])

\* C19 witness: a grant and a revoke were in flight together, both have been
\* handled, and the store is not what either left alone.
C19_Witness ==
    /\ Len(handled) >= 2
    /\ handled[1].kind # handled[2].kind
    /\ handled[2].arrived = handled[1].arrived
    /\ consentStore # HandlerStore(handled[2].arrived, handled[2].kind,
                                   handled[2].req, handled[2].at)
    /\ consentStore # HandlerStore(handled[1].arrived, handled[1].kind,
                                   handled[1].req, handled[1].at)

----------------------------------------------------------------------------
(* The setup script: src/setup.sh *)

\* LOG and BK_ROOT (the backup directory is named after the time of the run)
LOG == [path |-> "~/.one-click-badass.log"]
BK_ROOT(t) == [path |-> "~/.one-click-badass/backups", stamp |-> t]
Directory == [dir |-> TRUE]
HOME == [path |-> "~"]

\* The home directory before the script has ever run.
FreshHome == HOME :> Directory

\* The lines of the script that contain the text "DRY RUN" (grep -q "DRY RUN").
DryRunMode == "DRY RUN MODE - No changes will be made"
DryRunExec(command) == [dryrun |-> "[DRY RUN]", command |-> command]

\* A line of output that is plain text.
Text(line) == [text |-> line]

\* grep -q "DRY RUN" on one line of output
IsMarked(line) == IF "text" \in DOMAIN line THEN line.text = DryRunMode
                  ELSE "dryrun" \in DOMAIN line

\* The shell state the functions of the script work on.
Shell ==
    [DRY_RUN |-> DRY_RUN, CI_ALLOW |-> CI_ALLOW, OCB |-> OCB, status |-> status,
     exited |-> FALSE, output |-> output, files |-> files, pid |-> runs]

\* path > content and path >> content on the home directory
WriteFile(fs, path, content) == (path :> content) @@ fs
ContentOf(fs, path) == IF path \in DOMAIN fs THEN fs[path] ELSE <<>>

\* mkdir -p
Mkdir(fs, path) == IF path \in DOMAIN fs THEN fs ELSE (path :> Directory) @@ fs

\* echo: a line on the terminal only
echo(sh, line) == [sh EXCEPT !.output = Append(@, Text(line))]

\* log: printf "%s [%s] %s\n" "$timestamp" "$$" "$*" | tee -a "$LOG", a line
\* on stdout and at the end of the log, with the process id of the run
Stamped(sh, line) ==
    [k \in DOMAIN line \cup {"pid"} |-> IF k = "pid" THEN sh.pid ELSE line[k]]
log(sh, line) ==
    [sh EXCEPT !.output = Append(@, Stamped(sh, Text(line))),
               !.files = WriteFile(@, LOG, Append(ContentOf(@, LOG),
                                                  Stamped(sh, Text(line))))]

\* eval of the commands backup_file passes to run
Eval(fs, command) ==
    CASE command.cmd = "mkdir -p" -> Mkdir(fs, command.path)
      [] command.cmd = "cp -a"    -> WriteFile(fs, command.to, ContentOf(fs, command.from))

\* run: under DRY_RUN the command is logged and not executed.  (The module
\* functions of the script are templates: no step of main calls run or
\* backup_file.)
run(sh, command) ==
    IF sh.DRY_RUN
    THEN [sh EXCEPT !.output = Append(@, Stamped(sh, DryRunExec(command))),
                    !.files = WriteFile(@, LOG, Append(ContentOf(@, LOG),
                                                       Stamped(sh, DryRunExec(command))))]
    ELSE [log(sh, "EXEC") EXCEPT !.files = Eval(@, command)]

\* detect_environment: in CI the run switches itself to dry-run
detect_environment(sh, ci) ==
    IF ~ci THEN sh
    ELSE LET seen == log(sh, "CI environment detected")
         IN  IF ~seen.CI_ALLOW /\ ~seen.DRY_RUN
             THEN [log(seen, "Switching to dry-run mode for safety. Use --ci-allow to override.")
                      EXCEPT !.DRY_RUN = TRUE]
             ELSE seen

\* init: creates the log directory and the backup directory, empties the
\* log, writes the banner, and the dry-run notice if DRY_RUN is set by now.
init(sh, ci, t) ==
    LET made    == [sh EXCEPT !.files = WriteFile(Mkdir(Mkdir(@, HOME), BK_ROOT(t)),
                                                  LOG, <<>>)]
        banner  == log(log(log(log(log(made, "One-Click Badass v1.0.0 starting..."),
                                   "Command"), "Working directory"), "User"), "Started")
        noticed == IF banner.DRY_RUN THEN log(banner, DryRunMode) ELSE banner
    IN  detect_environment(log(noticed, "Detected"), ci)

Modules == {"dev_tools", "dotfiles", "docker", "security"}

\* One pass of the case statement of parse_args.
ParseArg(sh, arg) ==
    CASE arg = "--dry-run"   -> [sh EXCEPT !.DRY_RUN = TRUE]
      [] arg = "--all"       -> [sh EXCEPT !.OCB = Modules]
      [] arg = "--dev-tools" -> [sh EXCEPT !.OCB = @ \cup {"dev_tools"}]
      [] arg = "--dotfiles"  -> [sh EXCEPT !.OCB = @ \cup {"dotfiles"}]
      [] arg = "--docker"    -> [sh EXCEPT !.OCB = @ \cup {"docker"}]
      [] arg = "--security"  -> [sh EXCEPT !.OCB = @ \cup {"security"}]
      [] arg = "--ci-allow"  -> [sh EXCEPT !.CI_ALLOW = TRUE]
      [] OTHER -> [echo(log(sh, "ERROR: Unknown argument"),
                        "Use --help for usage information")
                      EXCEPT !.exited = TRUE, !.status = 2]

RECURSIVE ParseLoop(_, _)
ParseLoop(sh, args) ==
    IF args = <<>> \/ sh.exited THEN sh
    ELSE ParseLoop(ParseArg(sh, Head(args)), Tail(args))

\* parse_args: the loop, then the check that a module is selected
parse_args(sh, args) ==
    LET parsed == ParseLoop(sh, args)
    IN  IF parsed.exited THEN parsed
        ELSE IF parsed.OCB = {}
        THEN [echo(log(parsed, "ERROR: No modules selected. Use --all or specify individual modules."),
                   "Use --help for usage information")
                 EXCEPT !.exited = TRUE, !.status = 2]
        ELSE parsed

\* $OCB_<module> && log "  <name>"
Listed(sh, module, name) == IF module \in sh.OCB THEN log(sh, name) ELSE sh

\* setup_security: always asks, whatever --yes says
setup_security(sh, answer) ==
    LET asked == echo(echo(log(sh, "Setting up security..."), "SECURITY OPERATION"),
                      "Configure firewall and security hardening? [y/N] ")
    IN  IF answer # "y" THEN log(asked, "Skipping security setup") ELSE asked

\* $OCB_<module> && <function>
Installed(sh, module, line) == IF module \in sh.OCB THEN log(sh, line) ELSE sh

\* main after parse_args: the list of modules, then each selected module
Selected(sh, answer) ==
    LET listed == Listed(Listed(Listed(Listed(log(sh, "Selected modules:"),
                      "dev_tools", "  Development tools"), "dotfiles", "  Dotfiles"),
                      "docker", "  Docker"), "security", "  Security")
        tools  == Installed(Installed(Installed(listed,
                      "dev_tools", "Installing development tools..."),
                      "dotfiles", "Setting up dotfiles..."),
                      "docker", "Installing Docker...")
        secure == IF "security" \in tools.OCB THEN setup_security(tools, answer) ELSE tools
    IN  log(secure, "All selected modules completed!")

\* handle_exit, the EXIT trap
handle_exit(sh, t) ==
    IF sh.status # 0 THEN sh
    ELSE LET done  == log(sh, "One-Click Badass completed successfully")
             saved == IF BK_ROOT(t) \in DOMAIN done.files
                      THEN log(done, "Backups saved to") ELSE done
         IN  log(saved, "Full log")

\* How the script is started.
Arguments == {"--dry-run", "--all", "--dev-tools", "--security", "--ci-allow", "--verbose"}
ArgLists == {<<>>} \cup {<<a>> : a \in Arguments}
                \cup {<<a, b>> : a \in Arguments, b \in Arguments}

SetupInit ==
    /\ pc = "shell"
    /\ started = [args |-> <<>>, ci |-> FALSE, answer |-> "n", files |-> FreshHome]
    /\ DRY_RUN = FALSE
    /\ CI_ALLOW = FALSE
    /\ OCB = {}
    /\ status = 0
    /\ output = <<>>
    /\ files = FreshHome
    /\ runs = 0

\* The variables of the script after a function has run.
Becomes(sh) ==
    /\ DRY_RUN' = sh.DRY_RUN
    /\ CI_ALLOW' = sh.CI_ALLOW
    /\ OCB' = sh.OCB
    /\ status' = sh.status
    /\ output' = sh.output
    /\ files' = sh.files

NotScript == <<now, jumps, demoVars, issuerVars, apiVars, reqVars, consentVars,
               reissueVars, providerVars, laterVars>>

\* ./setup.sh <args>: the globals take their defaults and main is entered.
SetupStart ==
    /\ pc = "shell"
    /\ runs < MaxRuns
    /\ \E args \in ArgLists, ci \in BOOLEAN, answer \in {"y", "n"} :
           started' = [args |-> args, ci |-> ci, answer |-> answer, files |-> files]
    /\ pc' = "init"
    /\ runs' = runs + 1
    /\ Becomes([Shell EXCEPT !.DRY_RUN = FALSE, !.CI_ALLOW = FALSE, !.OCB = {},
                             !.status = 0, !.output = <<>>])
    /\ UNCHANGED NotScript

\* main: init "$@"
SetupRunInit ==
    /\ pc = "init"
    /\ pc' = "parse_args"
    /\ Becomes(init(Shell, started.ci, now))
    /\ UNCHANGED <<started, runs>>
    /\ UNCHANGED NotScript

\* main: parse_args "$@"
SetupParseArgs ==
    /\ pc = "parse_args"
    /\ LET sh == parse_args(Shell, started.args)
       IN  /\ Becomes(sh)
           /\ pc' = IF sh.exited THEN "handle_exit" ELSE "modules"
    /\ UNCHANGED <<started, runs>>
    /\ UNCHANGED NotScript

\* main: the selected modules
SetupModules ==
    /\ pc = "modules"
    /\ pc' = "handle_exit"
    /\ Becomes(Selected(Shell, started.answer))
    /\ UNCHANGED <<started, runs>>
    /\ UNCHANGED NotScript

\* The EXIT trap runs and the script ends.
SetupExit ==
    /\ pc = "handle_exit"
    /\ pc' = "exited"
    /\ Becomes(handle_exit(Shell, now))
    /\ UNCHANGED <<started, runs>>
    /\ UNCHANGED NotScript

\* Back at the prompt; the files stay as the run left them.
SetupReturn ==
    /\ pc = "exited"
    /\ pc' = "shell"
    /\ UNCHANGED <<started, DRY_RUN, CI_ALLOW, OCB, status, output, files, runs>>
    /\ UNCHANGED NotScript

SetupNext ==
    SetupStart \/ SetupRunInit \/ SetupParseArgs \/ SetupModules \/ SetupExit
        \/ SetupReturn

----------------------------------------------------------------------------
(* Claims about failure handling, authentication and replay *)

IssuanceEndpoints == {"vc/pof", "vc/kyc", "vc/device"}
KeyRecognised(apiKey) == apiKey = DemoApiKey
RefusalFor(apiKey) == IF apiKey = Undefined \/ apiKey = "" THEN 401 ELSE 403

\* An issuance route answers a request in this step.
IssuanceAnswers ==
    apiResp = NoResp /\ apiResp' # NoResp /\ apiResp'.endpoint \in IssuanceEndpoints

\* An issuance request without a recognised key is refused, and the step
\* issues nothing: no credential in the body, none stored, none pinned.
IssuanceNeedsKey ==
    (IssuanceAnswers /\ ~KeyRecognised(apiResp'.req.apiKey))
    => /\ apiResp'.resp.status = RefusalFor(apiResp'.req.apiKey)
       /\ DOMAIN apiResp'.resp.body = {"error"}
       /\ signed' = signed
       /\ issuedURI' = issuedURI

\* An assertion request without a recognised key is refused before the
\* consent check and before any fact provider is called.
AssertionNeedsKey ==
    (consentResp # NoResp /\ consentResp.endpoint \in AssertionKinds
     /\ ~KeyRecognised(consentResp.req.apiKey))
    => /\ consentResp.resp.status = RefusalFor(consentResp.req.apiKey)
       /\ consentResp.resp.body.error \in {"API key required", "Invalid API key"}
       /\ consentResp.resp.consulted = "none"

\* /api/verify is answered without any key.
VerifyNeedsNoKey ==
    (apiResp # NoResp /\ apiResp.endpoint = "verify")
    => /\ "apiKey" \notin DOMAIN apiResp.req
       /\ apiResp.resp.status \notin {401, 403}

\* C22: the issuance routes and the assertion routes do nothing (no issuance,
\* no consent check, no provider call) for a request without a recognised
\* API key, answering 401 for a missing key and 403 for an unknown one,
\* while the verification route answers requests that carry no key.
C22_KeyBeforeIssuanceAndAssertions ==
    /\ [][IssuanceNeedsKey]_vars
    /\ [](AssertionNeedsKey /\ VerifyNeedsNoKey)

\* A request for a recorded token and a holder, refused for its unknown key.
C22_Witness ==
    /\ apiResp # NoResp
    /\ apiResp.endpoint = "vc/pof"
    /\ apiResp.req.apiKey = "wrong-key"
    /\ apiResp.req.holderDID # NoValue
    /\ apiResp.req.tokenId \in DOMAIN pofTokenStore
    /\ apiResp.resp.status = 403

\* The domain a verified document's proof was made under, when its proof
\* value is a signature.
ProofDomain(vc) == vc.proof.proofValue.domain
HasSignature(vc) ==
    /\ vc.proof # NoValue
    /\ vc.proof.proofValue \notin {NoValue, EmptyString, GarbageSignature}

\* C23: a credential signed under a domain that differs from the verifying
\* deployment's domain in the network identifier or in the registry
\* reference fails signature verification.
C23_DomainBindsSignature ==
    (Verified /\ HasSignature(verification.vc)
     /\ (\/ ProofDomain(verification.vc).chainId # config.chainId
         \/ ProofDomain(verification.vc).verifyingContract # config.registryContract))
    => /\ ~verification.out.verified
       /\ verification.out.error = "Invalid signature"

\* The issuer's own key signed the unaltered document on another network.
C23_Witness ==
    /\ Verified
    /\ verification.vc = signed
    /\ HasSignature(verification.vc)
    /\ verification.vc.proof.proofValue.signer = AddressOf(config.signingKey)
    /\ ProofDomain(verification.vc).chainId # config.chainId
    /\ ProofDomain(verification.vc).verifyingContract = config.registryContract
    /\ verification.out.error = "Invalid signature"

\* C24: issuing twice from identical input data with the same signing key
\* gives two documents with the same credentialSubject, and each of them
\* verifies on its own while it has not expired.
C24_ReissueSameSubject ==
    reissue # NoReissue
    => /\ reissue.first.credentialSubject = reissue.second.credentialSubject
       /\ (~Expired(reissue.first, reissue.at) /\ ~Expired(reissue.second, reissue.at))
          => (reissue.firstOut.verified /\ reissue.secondOut.verified)

\* The validity window the specification gives each assertion type, in
\* milliseconds: one hour, twenty-four hours, seven days.
HourMs == HourSec * 1000
WindowOf(kind) ==
    CASE kind = "hasBalance"        -> HourMs
      [] kind = "hasKYC"            -> 24 * HourMs
      [] kind = "isDeviceCompliant" -> 7 * 24 * HourMs

C26_ProviderCallBounded ==
    /\ (call # NoCall /\ call.awaiting = "getNetwork")
          ~> (call # NoCall /\ call.awaiting = "returned")
    /\ []((call # NoCall /\ call.awaiting = "returned" /\ call.provider = "gave up")
            => (~call.out.verified /\ call.out.error = "ProviderTimeout"))

SignatureFailed(body) ==
    /\ ~body.valid
    /\ Len(body.evaluated) >= 1
    /\ body.evaluated[Len(body.evaluated)] = "signature"

\* C28: a verification result exposes nothing from a credential whose
\* proof did not verify: when the signature check fails the result is
\* invalid and carries no claims, issuer, expiry or metadata.
C28_NothingExposedOnBadProof ==
    (apiResp # NoResp /\ apiResp.endpoint = "verify" /\ apiResp.req.vcURI # NoValue
     /\ SignatureFailed(apiResp.resp.body))
    => /\ ~apiResp.resp.body.valid
       /\ apiResp.resp.body.reason = "Invalid signature"
       /\ apiResp.resp.body.claims = <<>>
       /\ apiResp.resp.body.metadata = NoMetadata
       /\ apiResp.resp.body.issuedBy = Undefined
       /\ apiResp.resp.body.expiresAt = NoValue

\* A credential has been issued and pinned, and /api/verify on its vcURI
\* failed at the signature check.
C28_Witness ==
    /\ apiResp # NoResp
    /\ apiResp.endpoint = "verify"
    /\ issuedURI # NoURI
    /\ apiResp.req.vcURI = issuedURI
    /\ SignatureFailed(apiResp.resp.body)

----------------------------------------------------------------------------
(* Claims about the setup script *)

\* The finished run was started with the given argument.
Given(arg) == \E i \in DOMAIN started.args : started.args[i] = arg
ModuleGiven == \E a \in {"--all", "--dev-tools", "--security"} : Given(a)
Finished == pc = "exited"

\* C29: whenever setup.sh is run with --dry-run and a module selection, its
\* output contains "DRY RUN".
C29_DryRunMarkerInOutput ==
    (Finished /\ status = 0 /\ Given("--dry-run") /\ ModuleGiven)
    => \E i \in DOMAIN output : IsMarked(output[i])

\* C30: with --dry-run the script only previews: no file or directory of
\* the home directory is created, truncated or changed by the run.
C30_DryRunChangesNothing ==
    (Finished /\ Given("--dry-run")) => files = started.files

\* C31: in a CI environment a run given --ci-allow and not --dry-run is
\* not switched into dry-run mode, and a run without --ci-allow is.
C31_CiAllowKeepsRealRun ==
    (Finished /\ status = 0 /\ started.ci)
    => /\ (Given("--ci-allow") /\ ~Given("--dry-run")) => ~DRY_RUN
       /\ ~Given("--ci-allow") => DRY_RUN

----------------------------------------------------------------------------
(* The identity system: src/unnamed/part_006 (class UnyID) *)

\* How many profiles are created, how many credentials are added, and how
\* many times the clock advances between the calls.
MaxProfiles == 2
MaxCredentials == 2
MaxWaits == 1

\* Wallet addresses handed to createProfile, and their lower-case forms.
Addresses == {"0xAb", "0xCd"}

ToLowerCase(address) ==
    CASE address = "0xAb" -> "0xab"
      [] address = "0xCd" -> "0xcd"
      [] OTHER -> address

\* `did:ethr:${address}`: the address as given, not in lower case.
DidOf(address) ==
    CASE address = "0xAb" -> "did:ethr:0xAb"
      [] address = "0xCd" -> "did:ethr:0xCd"

\* Usernames handed to createProfile; nothing restricts their form, so a
\* username may have the form of a DID.
Usernames == {"alice", "bob", "did:ethr:0xAb"}

\* The keys under which callers look profiles up.
Identifiers == {"did:ethr:0xAb", "did:ethr:0xCd", "alice"}

VerificationNames == {"email", "phone", "identity", "address", "income", "employment"}

\* A Map keeps its entries in the order in which their keys were first set.
MapHas(mp, key) == \E i \in 1..Len(mp) : mp[i].key = key

MapGet(mp, key) == (CHOOSE i \in 1..Len(mp) : mp[i].key = key)

MapSet(mp, key, ref) ==
    IF MapHas(mp, key)
    THEN [i \in 1..Len(mp) |-> IF mp[i].key = key THEN [key |-> key, ref |-> ref] ELSE mp[i]]
    ELSE Append(mp, [key |-> key, ref |-> ref])

\* Array.from(this.profiles.values()): one reference per entry, in order.
MapValues(mp) == [i \in 1..Len(mp) |-> mp[i].ref]

\* this.profiles.get(key): the profile object stored under key.
Stored(mp, objs, key) == objs[mp[MapGet(mp, key)].ref]

\* Math.round(n / d) for n >= 0, d > 0: halves round up.
MathRound(n, d) == (2 * n + d) \div (2 * d)

Min(a, b) == IF a < b THEN a ELSE b

LevelScore(device) ==
    CASE device.securityLevel = "hardware" -> 100
      [] device.securityLevel = "enhanced" -> 75
      [] OTHER -> 50

\* activeDevices.reduce((sum, device) => sum + levelScore, 0)
RECURSIVE TotalScore(_)
TotalScore(devices) ==
    IF devices = <<>> THEN 0 ELSE LevelScore(Head(devices)) + TotalScore(Tail(devices))

calculateDeviceSecurityScore(devices, t) ==
    IF Len(devices) = 0 THEN 0
    ELSE LET Active(d) == d.expiresAt > t
             activeDevices == SelectSeq(devices, Active)
         IN  IF Len(activeDevices) = 0 THEN 0
             ELSE MathRound(TotalScore(activeDevices), Len(activeDevices))

calculateTrustScore(profile, t) ==
    LET verificationCount == Cardinality({v \in VerificationNames : profile.verifications[v]})
        accountAge == (t - profile.createdAt) \div ThirtyDaysMs
        transactionHistory == 0
        communityVouches == 0
        complianceScore == IF profile.verifications["identity"] THEN 100 ELSE 0
        deviceSecurity == calculateDeviceSecurityScore(profile.devices, t)
        score == Min(1000, verificationCount * 10 + accountAge * 1
                           + transactionHistory * 5 + communityVouches * 3
                           + complianceScore * 2 + deviceSecurity * 1)
    IN  MathRound(score, 1)

\* attestationData is the set of capability flags that are true.
verifyDeviceAttestation(platform, attestationData) ==
    CASE platform = "ios" ->
           IF "hasSecureEnclave" \in attestationData THEN "hardware"
           ELSE IF "hasTouchID" \in attestationData THEN "enhanced" ELSE "basic"
      [] platform = "android" ->
           IF "hasStrongBox" \in attestationData THEN "hardware"
           ELSE IF "hasFingerprint" \in attestationData THEN "enhanced" ELSE "basic"
      [] platform = "web" ->
           IF "hasWebAuthn" \in attestationData THEN "enhanced" ELSE "basic"
      [] OTHER -> "basic"

isUsernameTaken(mp, objs, username) ==
    MapHas(mp, username) /\ Stored(mp, objs, username).username = username

\* What a call leaves behind: the Map, the objects, and what it returned or
\* threw.
Outcome(mp, objs, returned, threw) ==
    [profiles |-> mp, objects |-> objs, returned |-> returned, threw |-> threw]

NoError == "none"
Null == [null |-> TRUE]
Void == [void |-> TRUE]

createProfile(mp, objs, address, username, displayName, t) ==
    LET did == DidOf(address)
        profile == [did |-> did, address |-> ToLowerCase(address),
                    username |-> username, displayName |-> displayName,
                    trustScore |-> 0,
                    verifications |-> [v \in VerificationNames |-> FALSE],
                    credentials |-> <<>>, devices |-> <<>>,
                    createdAt |-> t, lastActive |-> t]
        ref == Len(objs) + 1
    IN  IF isUsernameTaken(mp, objs, username)
        THEN Outcome(mp, objs, Null, "Username already taken")
        ELSE Outcome(MapSet(MapSet(mp, did, ref), username, ref),
                     Append(objs, profile), profile, NoError)

\* The credential a profile keeps: the verifiable credential the issuer
\* returned, of which the profile code reads nothing; kept by its type.
CredentialFor(type, userDID) == [type |-> type, subject |-> userDID]

addProofOfFunds(mp, objs, userDID, pofData, t) ==
    IF ~MapHas(mp, userDID) THEN Outcome(mp, objs, Void, "Profile not found")
    ELSE LET ref == mp[MapGet(mp, userDID)].ref
             p0 == objs[ref]
             p1 == [p0 EXCEPT
                      !.credentials = Append(@, CredentialFor("ProofOfFundsCredential", userDID)),
                      !.verifications = [@ EXCEPT !["income"] = TRUE,
                                                  !["identity"] = IF pofData.kycCompliant THEN TRUE ELSE @]]
             p2 == [p1 EXCEPT !.trustScore = calculateTrustScore(p1, t), !.lastActive = t]
         IN  Outcome(mp, [objs EXCEPT ![ref] = p2], Void, NoError)

\* The metadata of an attestation, which no code reads, is left out.
addDeviceAttestation(mp, objs, userDID, deviceData, t) ==
    IF ~MapHas(mp, userDID) THEN Outcome(mp, objs, Void, "Profile not found")
    ELSE LET ref == mp[MapGet(mp, userDID)].ref
             p0 == objs[ref]
             attestation == [deviceId |-> deviceData.deviceId,
                             platform |-> deviceData.platform,
                             securityLevel |-> verifyDeviceAttestation(deviceData.platform,
                                                                       deviceData.attestationData),
                             attestedAt |-> t, expiresAt |-> t + WeekMs]
             Other(d) == d.deviceId # deviceData.deviceId
             p1 == [p0 EXCEPT
                      !.devices = Append(SelectSeq(@, Other), attestation),
                      !.credentials = Append(@, CredentialFor("DeviceAttestationCredential", userDID))]
             p2 == [p1 EXCEPT !.trustScore = calculateTrustScore(p1, t), !.lastActive = t]
         IN  Outcome(mp, [objs EXCEPT ![ref] = p2], Void, NoError)

verifyIdentity(mp, objs, userDID, kycData, t) ==
    IF ~MapHas(mp, userDID) THEN Outcome(mp, objs, Void, "Profile not found")
    ELSE LET ref == mp[MapGet(mp, userDID)].ref
             p0 == objs[ref]
             p1 == [p0 EXCEPT
                      !.credentials = Append(@, CredentialFor("KYCCredential", userDID)),
                      !.verifications = [@ EXCEPT !["identity"] = kycData.approved]]
             p2 == [p1 EXCEPT
                      !.trustScore = IF kycData.approved THEN calculateTrustScore(p1, t) ELSE @,
                      !.lastActive = t]
         IN  Outcome(mp, [objs EXCEPT ![ref] = p2], Void, NoError)

getProfile(mp, objs, identifier) ==
    IF MapHas(mp, identifier) THEN Stored(mp, objs, identifier) ELSE Null

\* Whether a profile passes the criteria of searchProfiles.
MatchesCriteria(p, criteria) ==
    /\ ~(Truthy(criteria.minTrustScore) /\ p.trustScore < criteria.minTrustScore.v)
    /\ criteria.verifications.given
         => \A i \in 1..Len(criteria.verifications.list) :
                p.verifications[criteria.verifications.list[i]]
    /\ ~(Truthy(criteria.createdAfter) /\ p.createdAt < criteria.createdAfter.v)

\* The array returned holds references to profile objects.
searchProfiles(mp, objs, criteria) ==
    LET Actual(ref) == TruthyStr(objs[ref].did)
        Matches(ref) == MatchesCriteria(objs[ref], criteria)
    IN  SelectSeq(SelectSeq(MapValues(mp), Actual), Matches)

PofData == {[kycCompliant |-> k] : k \in BOOLEAN}

KycData == {[approved |-> a] : a \in BOOLEAN}

DeviceData ==
    {[deviceId |-> "phone", platform |-> "ios", attestationData |-> {"hasSecureEnclave"}],
     [deviceId |-> "laptop", platform |-> "web", attestationData |-> {"hasWebAuthn"}]}

NoVerifications == [given |-> FALSE, list |-> <<>>]

SearchCriteria ==
    {[minTrustScore |-> NoValue, verifications |-> NoVerifications, createdAfter |-> NoValue],
     [minTrustScore |-> Num(0), verifications |-> NoVerifications, createdAfter |-> NoValue],
     [minTrustScore |-> Num(100), verifications |-> NoVerifications, createdAfter |-> NoValue],
     [minTrustScore |-> NoValue, verifications |-> [given |-> TRUE, list |-> <<"income">>],
      createdAfter |-> NoValue],
     [minTrustScore |-> NoValue, verifications |-> NoVerifications,
      createdAfter |-> Num(StartMs + WeekMs)]}

RECURSIVE CredentialCount(_)
CredentialCount(objs) ==
    IF objs = <<>> THEN 0 ELSE Len(Head(objs).credentials) + CredentialCount(Tail(objs))

UnyIDInit ==
    /\ profiles = <<>>
    /\ objects = <<>>
    /\ unyResp = NoResp

NotUnyID == <<demoVars, issuerVars, apiVars, reqVars, consentVars, reissueVars,
              providerVars, setupVars, actorVars, widgetVars, proofVars>>

\* The call returns (or throws): the Map and the objects are as it left them.
Returns(op, arg, out) ==
    /\ profiles' = out.profiles
    /\ objects' = out.objects
    /\ unyResp' = [endpoint |-> op, arg |-> arg, returned |-> out.returned,
                   threw |-> out.threw, at |-> now]
    /\ UNCHANGED <<now, jumps, NotUnyID>>

UnyCreateProfile ==
    /\ unyResp = NoResp
    /\ Len(objects) < MaxProfiles
    /\ \E address \in Addresses, username \in Usernames :
          Returns("createProfile", [address |-> address, username |-> username],
                  createProfile(profiles, objects, address, username, "Name", now))

UnyAddProofOfFunds ==
    /\ unyResp = NoResp
    /\ CredentialCount(objects) < MaxCredentials
    /\ \E userDID \in Identifiers, pofData \in PofData :
          Returns("addProofOfFunds", [userDID |-> userDID, data |-> pofData],
                  addProofOfFunds(profiles, objects, userDID, pofData, now))

UnyAddDeviceAttestation ==
    /\ unyResp = NoResp
    /\ CredentialCount(objects) < MaxCredentials
    /\ \E userDID \in Identifiers, deviceData \in DeviceData :
          Returns("addDeviceAttestation", [userDID |-> userDID, data |-> deviceData],
                  addDeviceAttestation(profiles, objects, userDID, deviceData, now))

UnyVerifyIdentity ==
    /\ unyResp = NoResp
    /\ CredentialCount(objects) < MaxCredentials
    /\ \E userDID \in Identifiers, kycData \in KycData :
          Returns("verifyIdentity", [userDID |-> userDID, data |-> kycData],
                  verifyIdentity(profiles, objects, userDID, kycData, now))

UnyGetProfile ==
    /\ unyResp = NoResp
    /\ \E identifier \in Identifiers :
          Returns("getProfile", [identifier |-> identifier],
                  Outcome(profiles, objects, getProfile(profiles, objects, identifier), NoError))

UnySearchProfiles ==
    /\ unyResp = NoResp
    /\ \E criteria \in SearchCriteria :
          Returns("searchProfiles", [criteria |-> criteria],
                  Outcome(profiles, objects,
                          [found |-> searchProfiles(profiles, objects, criteria)], NoError))

\* The caller has its answer.
UnyReturn ==
    /\ unyResp # NoResp
    /\ unyResp' = NoResp
    /\ UNCHANGED <<now, jumps, profiles, objects, NotUnyID>>

UnyTick ==
    /\ unyResp = NoResp
    /\ jumps < MaxWaits
    /\ Tick
    /\ UNCHANGED <<unyidVars, NotUnyID>>

UnyIDNext ==
    \/ UnyCreateProfile \/ UnyAddProofOfFunds \/ UnyAddDeviceAttestation
    \/ UnyVerifyIdentity \/ UnyGetProfile \/ UnySearchProfiles
    \/ UnyReturn \/ UnyTick

----------------------------------------------------------------------------
(* Claims about the identity system *)

\* The profile objects the Map holds, by reference, and the reference a key
\* leads to.
HeldRefs == {profiles[i].ref : i \in 1..Len(profiles)}

RefUnder(key) == profiles[MapGet(profiles, key)].ref

Occurrences(s, x) == Cardinality({i \in 1..Len(s) : s[i] = x})

\* C32: searchProfiles returns only profiles of the store, and each profile
\* that matches the criteria exactly once, under however many keys the store
\* holds it.
C32_SearchReturnsEachOnce ==
    unyResp.endpoint = "searchProfiles"
    => LET found == unyResp.returned.found
           criteria == unyResp.arg.criteria
       IN  /\ \A i \in 1..Len(found) : found[i] \in HeldRefs
           /\ \A ref \in HeldRefs :
                Occurrences(found, ref)
                    = IF MatchesCriteria(objects[ref], criteria) THEN 1 ELSE 0

\* C38: after any sequence of createProfile calls each username belongs to at
\* most one profile of the store, and the DID and the username of every
\* profile of the store both lead to that profile.
C38_LookupsAgree ==
    /\ \A r1, r2 \in HeldRefs :
          objects[r1].username = objects[r2].username => r1 = r2
    /\ \A ref \in HeldRefs :
          /\ MapHas(profiles, objects[ref].did)
          /\ MapHas(profiles, objects[ref].username)
          /\ RefUnder(objects[ref].did) = ref
          /\ RefUnder(objects[ref].username) = ref

ProfileChanging == {"addProofOfFunds", "addDeviceAttestation", "verifyIdentity"}

\* C39: after addProofOfFunds, addDeviceAttestation or verifyIdentity the
\* stored trustScore of the profile is the score computed from its
\* verifications and devices as they now are, and lies in 0..1000.
C39_StoredScoreIsComputed ==
    (unyResp.endpoint \in ProfileChanging /\ unyResp.threw = NoError)
    => LET p == Stored(profiles, objects, unyResp.arg.userDID)
       IN  /\ p.trustScore = calculateTrustScore(p, now)
           /\ p.trustScore \in 0..1000

----------------------------------------------------------------------------
(* Who posts a grant: src/src/api/silobridge-api.ts *)

\* The parties that post to the API: the subjects, and the requester that holds
\* the API key.
Callers == Users \cup {DemoApiKey}

ActorInit == granters = [u \in Users |-> {}]

\* POST /api/consent/grant as sent by a caller.  The route has no
\* authenticate step and its handler reads the body only, so the answer is
\* that of ConsentGrant whoever the caller is; granters records, for the
\* subject the body names, who has posted.
ActorPostGrant ==
    /\ consentResp = NoResp
    /\ \E caller \in Callers, req \in GrantRequests :
           LET out == ConsentGrant(consentStore, req, now)
           IN  /\ consentStore' = out.store
               /\ consentResp' = [endpoint |-> "grant", req |-> req, resp |-> out.resp,
                                  before |-> consentStore, at |-> now]
               /\ granters' = [granters EXCEPT ![req.userId] = @ \cup {caller}]
    /\ UNCHANGED <<now, jumps, reissueVars, providerVars, setupVars, unyidVars, widgetVars,
                   proofVars, demoVars, issuerVars, apiVars, reqVars, inFlight, handled>>

ActorNext == ActorPostGrant \/ GetAssertion \/ ConsentDeliver \/ ConsentTick

----------------------------------------------------------------------------
(* The sign-in widget: src/src/unykorn-suite/components/UnyIDConnect.tsx *)

\* The props a page mounts the widget with.
WidgetProps ==
    [minTrustScore : {0, 500},
     requiredVerifications : {<<>>, <<"identity">>, <<"identity", "income">>},
     allowRegistration : BOOLEAN]

\* The profiles the authentication server may answer with: data.profile of
\* /auth/connect and of /auth/register.
ServerProfiles ==
    {[did |-> "did:ethr:0xAb", username |-> "alice", trustScore |-> score,
      verifications |-> [v \in VerificationNames |-> v \in verified]] :
        score \in {0, 600}, verified \in {{}, {"identity"}, {"identity", "income"}}}

\* What fetch and response.json() give the widget: an answer that is not ok,
\* or an ok answer with a profile and a token.
ServerAnswers ==
    {[ok |-> FALSE, profile |-> Null, token |-> Undefined]}
    \cup {[ok |-> TRUE, profile |-> p, token |-> "token"] : p \in ServerProfiles}

Unmounted == [status |-> "unmounted"]

\* useState: the state of the widget when it mounts.  pending is the fetch
\* awaited, notified the arguments of the last onAuthenticated call, failed
\* whether onError was called last.
Mounted(props) ==
    [props |-> props, status |-> "idle", profile |-> Null, authToken |-> Undefined,
     error |-> Undefined, showRegistration |-> FALSE, pending |-> "none",
     notified |-> Null, failed |-> FALSE]

WidgetInit == widget = Unmounted

\* requiredVerifications.filter(v => !data.profile.verifications[v])
MissingVerifications(props, profile) ==
    LET Lacks(name) == ~profile.verifications[name]
    IN  SelectSeq(props.requiredVerifications, Lacks)

\* The catch block of connectUnyID and of registerUnyID.
Caught(w, message) ==
    [w EXCEPT !.error = message, !.status = "idle", !.pending = "none", !.failed = TRUE]

\* The part of connectUnyID before the fetch is awaited.
connectUnyID_Begin(w) ==
    [w EXCEPT !.status = "connecting", !.error = Undefined, !.pending = "connect"]

\* The part of connectUnyID after the fetch has answered.
connectUnyID_Resume(w, answer) ==
    IF ~answer.ok THEN Caught(w, "Connection failed")
    ELSE IF w.props.minTrustScore > 0 /\ answer.profile.trustScore < w.props.minTrustScore
    THEN Caught(w, "Trust score too low")
    ELSE IF Len(w.props.requiredVerifications) > 0
            /\ Len(MissingVerifications(w.props, answer.profile)) > 0
    THEN Caught(w, "Missing verifications")
    ELSE [w EXCEPT !.profile = answer.profile, !.authToken = answer.token,
                   !.status = "authenticated", !.pending = "none",
                   !.notified = answer.profile, !.failed = FALSE]

registerUnyID_Begin(w) ==
    [w EXCEPT !.status = "registering", !.error = Undefined, !.pending = "register"]

registerUnyID_Resume(w, answer) ==
    IF ~answer.ok THEN Caught(w, "Registration failed")
    ELSE [w EXCEPT !.profile = answer.profile, !.authToken = answer.token,
                   !.status = "authenticated", !.showRegistration = FALSE,
                   !.pending = "none", !.notified = answer.profile, !.failed = FALSE]

disconnect(w) ==
    [w EXCEPT !.profile = Null, !.authToken = Undefined, !.status = "idle",
              !.error = Undefined, !.showRegistration = FALSE]

\* What the widget renders.
View(w) ==
    IF w.showRegistration THEN "registration"
    ELSE IF w.status \in {"connecting", "registering"} THEN "connecting"
    ELSE IF w.status = "authenticated" THEN "authenticated"
    ELSE "idle"

NotWidget == <<now, jumps, demoVars, issuerVars, apiVars, reqVars, consentVars, reissueVars,
               providerVars, setupVars, unyidVars, actorVars, proofVars>>

WidgetMount ==
    /\ widget = Unmounted
    /\ \E props \in WidgetProps : widget' = Mounted(props)
    /\ UNCHANGED NotWidget

\* The user enters an identifier in the idle view and presses Connect.
WidgetConnect ==
    /\ widget # Unmounted
    /\ View(widget) = "idle"
    /\ widget' = connectUnyID_Begin(widget)
    /\ UNCHANGED NotWidget

WidgetConnectAnswered ==
    /\ widget # Unmounted
    /\ widget.pending = "connect"
    /\ \E answer \in ServerAnswers : widget' = connectUnyID_Resume(widget, answer)
    /\ UNCHANGED NotWidget

\* 'Create New UnyID' in the idle view, and 'Cancel' in the form.
WidgetShowRegistration ==
    /\ widget # Unmounted
    /\ View(widget) = "idle"
    /\ widget.props.allowRegistration
    /\ widget' = [widget EXCEPT !.showRegistration = TRUE]
    /\ UNCHANGED NotWidget

WidgetHideRegistration ==
    /\ widget # Unmounted
    /\ View(widget) = "registration"
    /\ widget' = [widget EXCEPT !.showRegistration = FALSE]
    /\ UNCHANGED NotWidget

\* 'Create UnyID' in the form, enabled while no registration is under way.
WidgetRegister ==
    /\ widget # Unmounted
    /\ View(widget) = "registration"
    /\ widget.status # "registering"
    /\ widget' = registerUnyID_Begin(widget)
    /\ UNCHANGED NotWidget

WidgetRegisterAnswered ==
    /\ widget # Unmounted
    /\ widget.pending = "register"
    /\ \E answer \in ServerAnswers : widget' = registerUnyID_Resume(widget, answer)
    /\ UNCHANGED NotWidget

WidgetDisconnect ==
    /\ widget # Unmounted
    /\ View(widget) = "authenticated"
    /\ widget' = disconnect(widget)
    /\ UNCHANGED NotWidget

WidgetNext ==
    \/ WidgetMount \/ WidgetConnect \/ WidgetConnectAnswered
    \/ WidgetShowRegistration \/ WidgetHideRegistration
    \/ WidgetRegister \/ WidgetRegisterAnswered \/ WidgetDisconnect

----------------------------------------------------------------------------
(* The proof-check component: src/src/api/silobridge-api.ts (SiloProofCheck) *)

\* How many requests one mounted component sends.
MaxRequests == 3

GoodURI == "ipfs://QmGood"
BadURI == "ipfs://QmBad"

\* The props a page passes: the credential to check, and the two switches.
ProofProps ==
    [vcURI : {Undefined, GoodURI, BadURI}, tokenId : {Undefined},
     autoVerify : BOOLEAN, showDetails : BOOLEAN]

\* What the verification endpoint answers for a request body: the same
\* result whenever it is asked about the same credential.
EndpointResult(requestBody) ==
    IF requestBody.vcURI = GoodURI
    THEN [valid |-> TRUE, reason |-> Undefined, about |-> requestBody.vcURI]
    ELSE [valid |-> FALSE, reason |-> "Credential verification failed",
          about |-> requestBody.vcURI]

NotMounted == [status |-> "unmounted"]

\* useState, and the requests the component has sent: for each its body,
\* and, once the fetch has answered, whether the answer was ok.
FirstRender(props) ==
    [props |-> props, status |-> "idle", result |-> Null, error |-> Undefined,
     requests |-> <<>>, refused |-> FALSE]

ProofCheckInit == proofCheck = NotMounted

\* verify(), up to the point where fetch is awaited.
verify_Begin(c, t) ==
    IF ~TruthyStr(c.props.vcURI) /\ ~TruthyStr(c.props.tokenId)
    THEN [c EXCEPT !.error = "Either vcURI or tokenId must be provided",
                   !.status = "invalid", !.refused = TRUE]
    ELSE [c EXCEPT !.status = "loading", !.error = Undefined, !.refused = FALSE,
                   !.requests = Append(@, [body |-> [vcURI |-> c.props.vcURI,
                                                     tokenId |-> c.props.tokenId,
                                                     timestamp |-> t],
                                           answered |-> FALSE, ok |-> FALSE])]

\* verify(), from the answer of request i on.
verify_Resume(c, i, ok) ==
    LET verificationResult == EndpointResult(c.requests[i].body)
        seen == [c EXCEPT !.requests[i].answered = TRUE, !.requests[i].ok = ok]
    IN  IF ~ok
        THEN [seen EXCEPT !.error = "Verification failed", !.status = "invalid"]
        ELSE [seen EXCEPT !.result = verificationResult,
                          !.status = IF verificationResult.valid THEN "valid" ELSE "invalid"]

\* useEffect(..., [autoVerify, verify]): runs after the first render and after
\* a render in which autoVerify or a dependency of verify has changed.
Effect(c, t) ==
    IF c.props.autoVerify /\ (TruthyStr(c.props.vcURI) \/ TruthyStr(c.props.tokenId))
    THEN verify_Begin(c, t)
    ELSE c

\* The view that shows a button that calls verify.
ShowsButton(c) ==
    \/ c.status = "invalid" /\ c.props.showDetails
    \/ c.status = "idle" /\ (TruthyStr(c.props.vcURI) \/ TruthyStr(c.props.tokenId))

NotProofCheck == <<now, jumps, demoVars, issuerVars, apiVars, reqVars, consentVars,
                   reissueVars, providerVars, setupVars, unyidVars, actorVars, widgetVars>>

ProofMount ==
    /\ proofCheck = NotMounted
    /\ \E props \in ProofProps : proofCheck' = Effect(FirstRender(props), now)
    /\ UNCHANGED NotProofCheck

\* The page passes another credential, or switches autoVerify.
ProofPropsChange ==
    /\ proofCheck # NotMounted
    /\ Len(proofCheck.requests) < MaxRequests
    /\ \E props \in ProofProps :
          /\ props.showDetails = proofCheck.props.showDetails
          /\ props # proofCheck.props
          /\ proofCheck' = Effect([proofCheck EXCEPT !.props = props], now)
    /\ UNCHANGED NotProofCheck

\* 'Try again' or 'Verify Credentials'.
ProofClick ==
    /\ proofCheck # NotMounted
    /\ Len(proofCheck.requests) < MaxRequests
    /\ ShowsButton(proofCheck)
    /\ proofCheck' = verify_Begin(proofCheck, now)
    /\ UNCHANGED NotProofCheck

\* The answer to one of the requests in flight arrives.
ProofAnswered ==
    /\ proofCheck # NotMounted
    /\ \E i \in 1..Len(proofCheck.requests), ok \in BOOLEAN :
          /\ ~proofCheck.requests[i].answered
          /\ proofCheck' = verify_Resume(proofCheck, i, ok)
    /\ UNCHANGED NotProofCheck

ProofCheckNext == ProofMount \/ ProofPropsChange \/ ProofClick \/ ProofAnswered

----------------------------------------------------------------------------
(* Claims about grants, signed fields and the components *)

\* C33: a grant never withdraws consent: whatever scope the requester held
\* unexpired consent for immediately before a grant of the subject to that
\* requester, it holds immediately after, be the scope among the newly
\* granted ones or not.
C33_GrantNeverWithdraws ==
    GrantAnswered
    => \A s \in Scopes :
          HasUnexpiredGrant(consentResp.before, consentResp.req.userId,
                            consentResp.req.grantedTo, s, consentResp.at)
          => HasUnexpiredGrant(consentStore, consentResp.req.userId,
                               consentResp.req.grantedTo, s, consentResp.at)

MeetsRequirements(props, profile) ==
    /\ profile.trustScore >= props.minTrustScore
    /\ \A i \in 1..Len(props.requiredVerifications) :
          profile.verifications[props.requiredVerifications[i]]

\* C36: the widget has the status 'authenticated', and has called
\* onAuthenticated, only with a profile whose trustScore is at least
\* minTrustScore and which has every required verification, by connect or by
\* register.
C36_AuthenticatedMeetsRequirements ==
    widget # Unmounted
    => /\ widget.status = "authenticated" => MeetsRequirements(widget.props, widget.profile)
       /\ widget.notified # Null => MeetsRequirements(widget.props, widget.notified)

\* Every request of the component has been answered, and the last call of
\* verify sent one.
AllAnswered ==
    /\ proofCheck # NotMounted
    /\ Len(proofCheck.requests) > 0
    /\ ~proofCheck.refused
    /\ \A i \in 1..Len(proofCheck.requests) : proofCheck.requests[i].answered

\* C37: when the verify requests of one SiloProofCheck overlap, the status
\* and the result displayed once all are answered are those of the request
\* started last, in whatever order the answers arrived.
C37_LatestRequestDisplayed ==
    AllAnswered
    => LET last == proofCheck.requests[Len(proofCheck.requests)]
       IN  IF last.ok
           THEN /\ proofCheck.result = EndpointResult(last.body)
                /\ proofCheck.status = IF EndpointResult(last.body).valid
                                       THEN "valid" ELSE "invalid"
           ELSE proofCheck.status = "invalid"

----------------------------------------------------------------------------
(* Specifications *)

Init ==
    ClockInit /\ DemoInit /\ IssuerInit /\ ApiInit /\ ReqInit /\ ConsentInit
        /\ ReissueInit /\ ProviderInit /\ SetupInit
        /\ UnyIDInit /\ ActorInit /\ WidgetInit /\ ProofCheckInit

DemoNext ==
    DemoPostVerify \/ DemoPostVerifyDual \/ DemoDeliver \/ LedgerUpdate \/ DemoTick

SpecDemo == Init /\ [][DemoNext]_vars

\* The issuer called directly, and the credential path of /api/verify, which
\* calls it.
SpecIssuer == Init /\ [][IssuerNext \/ ApiPostVerifyVC \/ ApiDeliver]_vars

SpecApi == Init /\ [][ApiNext]_vars

SpecReq == Init /\ [][ReqNext]_vars

SpecConsent == Init /\ [][ConsentNext]_vars

SpecConcurrent == Init /\ [][ConcurrentNext]_vars

\* The routes behind authenticate next to the open ones; the server answers
\* one request at a time.
AuthNext ==
    \/ consentResp = NoResp
          /\ (ApiPostVerify \/ ApiPostIssuePof \/ ApiPostIssueKyc \/ ApiPostIssueDevice
                 \/ ApiLedgerPut \/ ApiDeliver)
    \/ ApiIdle /\ (ConsentPostGrant \/ GetAssertion \/ ConsentDeliver)
SpecAuth == Init /\ [][AuthNext]_vars

\* The issuer asked again for a credential it has issued.
ReissueNext ==
    \/ reissue = NoReissue /\ (Issue \/ IssuerTick)
    \/ Reissue
    \/ ReissueReturn
SpecReissue == Init /\ [][ReissueNext]_vars

\* Verification calls that wait for the RPC provider.  The issuer's own
\* steps are taken when they can be; nothing obliges the provider to answer
\* or the library to give up.
ProviderNext ==
    \/ call = NoCall /\ (Issue \/ IssueForeign \/ IssuerTick)
    \/ VerifyBegin
    \/ ProviderAnswers
    \/ ProviderGivesUp
    \/ CallReturn
SpecProvider == Init /\ [][ProviderNext]_vars /\ WF_vars(CallReturn)

SpecSetup == Init /\ [][SetupNext]_vars

SpecUnyID == Init /\ [][UnyIDNext]_vars

SpecActors == Init /\ [][ActorNext]_vars

SpecWidget == Init /\ [][WidgetNext]_vars

SpecProofCheck == Init /\ [][ProofCheckNext]_vars

====
